---- MODULE Spec2Model ----
(***************************************************************************)
(* Cafeteria lunch registration and till: the reservation ledger, the till *)
(* ledger, the quota / capacity checks and the closing of a day, as        *)
(* implemented by src/app.py (SQLite backend) and src/app_sheets.py        *)
(* (spreadsheet backend).                                                  *)
(*                                                                         *)
(* Conventions                                                             *)
(*  - a text (Python str) is a sequence of one-character strings, so that  *)
(*    strip / upper / split / int() are computed character by character;  *)
(*  - money is counted in centimes (8.0 CHF = 800): every price is a       *)
(*    multiple of 0.5, so the float sums of the code are exact;            *)
(*  - created_at / timestamp columns are left out: no code reads them;     *)
(*  - a ledger is the sequence of its rows in insertion order (SQLite      *)
(*    rowid order; sheet row order below the header row, which every       *)
(*    sheet of the workbook is taken to have, as get_all_values()[1:]      *)
(*    expects);                                                            *)
(*  - the quota (40) and the capacity (45) keep their values.  A run       *)
(*    starts from empty ledgers or from ledgers that earlier requests      *)
(*    have filled to just below the quota / the capacity with rows of one  *)
(*    person, and serves a bounded number of further requests.             *)
(***************************************************************************)
EXTENDS Integers, Sequences, FiniteSets, TLC

VARIABLES
  backend,   \* "sqlite" (app.py) or "sheets" (app_sheets.py); fixed per run
  params,    \* schedule rows (ParamRow table / "Paramètres" sheet)
  resas,     \* reservation rows (Reservation table / "Réservations" sheet)
  till,      \* till rows (TillRow table / "Caisse" sheet)
  result,    \* the response to the last completed request
  ops,       \* number of requests issued so far
  outbox,    \* the closing summaries handed to send_summary_mail
  pc,        \* per worker thread: where it stands inside its handler
  loc        \* per worker thread: the handler's local variables

vars == <<backend, params, resas, till, result, ops, outbox, pc, loc>>

-----------------------------------------------------------------------------
(* Program constants *)

MAX_RESAS == 40
MAX_MENUS == 45
PRICE_ELEVE == 800
PRICE_PROF == 1200
PRICE_SANDWICH == 600
PRICE_BOISSON == 200
PRICE_CHOCOLAT == 150

(* Bounds of the model *)

\* requests per run of the reservation specification
MaxOps == 3
\* requests per run of the till specification
MaxTillOps == 2
\* worker threads serving requests at the same time
NProcs == 2
\* requests per run of the specification of the desk
MaxDeskOps == 3
\* requests per run of the specification of one day at the till
MaxDayOps == 4
\* rows of the schedule of the registration page
MaxEntries == 2
\* consecutive values of today for which the registration page is loaded
MaxTodays == 8
MaxDates == 6
MaxFrameOps == 3

-----------------------------------------------------------------------------
(* Text *)

Whitespace == {" "}

Lower == <<"a","b","c","d","e","f","g","h","i","j","k","l","m",
           "n","o","p","q","r","s","t","u","v","w","x","y","z">>
UpperC == <<"A","B","C","D","E","F","G","H","I","J","K","L","M",
            "N","O","P","Q","R","S","T","U","V","W","X","Y","Z">>
DigitChars == <<"0","1","2","3","4","5","6","7","8","9">>

RECURSIVE LStrip(_)
LStrip(s) == IF s # <<>> /\ Head(s) \in Whitespace THEN LStrip(Tail(s)) ELSE s

RECURSIVE RStrip(_)
RStrip(s) ==
  IF s # <<>> /\ s[Len(s)] \in Whitespace THEN RStrip(SubSeq(s, 1, Len(s) - 1)) ELSE s

\* str.strip()
strip(s) == RStrip(LStrip(s))

\* str.upper(), one character
UpperOf == [i \in DOMAIN Lower |-> UpperC[i]]
LowerSet == {Lower[i] : i \in DOMAIN Lower}
LowerIndex == [c \in LowerSet |-> CHOOSE i \in DOMAIN Lower : Lower[i] = c]
upper_char(c) == IF c \in LowerSet THEN UpperOf[LowerIndex[c]] ELSE c

\* str.upper()
upper(s) == [i \in DOMAIN s |-> upper_char(s[i])]

\* str.split(): the maximal runs of non-whitespace characters
RECURSIVE split_ws(_, _, _)
split_ws(s, cur, acc) ==
  IF s = <<>> THEN (IF cur = <<>> THEN acc ELSE Append(acc, cur))
  ELSE IF Head(s) \in Whitespace
       THEN split_ws(Tail(s), <<>>, IF cur = <<>> THEN acc ELSE Append(acc, cur))
       ELSE split_ws(Tail(s), Append(cur, Head(s)), acc)

\* " ".join(words)
RECURSIVE join_sp(_)
join_sp(words) ==
  IF words = <<>> THEN <<>>
  ELSE IF Len(words) = 1 THEN words[1]
  ELSE words[1] \o <<" ">> \o join_sp(Tail(words))

norm_name(s) == join_sp(split_ws(upper(strip(s)), <<>>, <<>>))

\* str.split(sep) on a one-character separator
RECURSIVE split_on(_, _, _, _)
split_on(s, sep, cur, acc) ==
  IF s = <<>> THEN Append(acc, cur)
  ELSE IF Head(s) = sep
       THEN split_on(Tail(s), sep, <<>>, Append(acc, cur))
       ELSE split_on(Tail(s), sep, Append(cur, Head(s)), acc)

IsDigit(c) == \E i \in DOMAIN DigitChars : DigitChars[i] = c
DigitVal(c) == (CHOOSE i \in DOMAIN DigitChars : DigitChars[i] = c) - 1

\* int(text) for a text of decimal digits; -1 stands for ValueError
RECURSIVE int_acc(_, _)
int_acc(s, n) ==
  IF s = <<>> THEN n ELSE int_acc(Tail(s), 10 * n + DigitVal(Head(s)))
int_of(s) ==
  IF s # <<>> /\ \A i \in DOMAIN s : IsDigit(s[i]) THEN int_acc(s, 0) ELSE -1

\* f"{n:0{w}d}"
RECURSIVE digits_of(_)
digits_of(n) ==
  IF n < 10 THEN <<DigitChars[n + 1]>>
  ELSE Append(digits_of(n \div 10), DigitChars[(n % 10) + 1])
RECURSIVE zero_pad(_, _)
zero_pad(s, w) == IF Len(s) >= w THEN s ELSE zero_pad(<<"0">> \o s, w)
fmt_int(n, w) == zero_pad(digits_of(n), w)

-----------------------------------------------------------------------------
(* Dates *)

\* the local calendar date of the run: Monday 17 March 2025
today_iso == <<"2","0","2","5","-","0","3","-","1","7">>

\* the outcome of a handler whose code raised an exception FastAPI does not
\* turn into a 400: the request ends with status 500
Raised == <<"ValueError">>

-----------------------------------------------------------------------------
(* Calendar: datetime.date as the library computes it.  A date value is its   *)
(* proleptic Gregorian ordinal (date.toordinal(): 1 is 0001-01-01, a Monday). *)

is_leap(y) == y % 4 = 0 /\ (y % 100 # 0 \/ y % 400 = 0)

DAYS_IN_MONTH == <<31, 28, 31, 30, 31, 30, 31, 31, 30, 31, 30, 31>>
DAYS_BEFORE_MONTH == <<0, 31, 59, 90, 120, 151, 181, 212, 243, 273, 304, 334>>

days_in_month(y, m) == IF m = 2 /\ is_leap(y) THEN 29 ELSE DAYS_IN_MONTH[m]
days_before_month(y, m) == DAYS_BEFORE_MONTH[m] + (IF m > 2 /\ is_leap(y) THEN 1 ELSE 0)
days_before_year(y) ==
  (y - 1) * 365 + ((y - 1) \div 4) - ((y - 1) \div 100) + ((y - 1) \div 400)

\* date(y, m, d).toordinal()
ymd2ord(y, m, d) == days_before_year(y) + days_before_month(y, m) + d

\* date.fromordinal(n) -> <<year, month, day>>
ord2ymd(ordinal) ==
  LET n0 == ordinal - 1
      n400 == n0 \div 146097
      r400 == n0 % 146097
      n100 == r400 \div 36524
      r100 == r400 % 36524
      n4 == r100 \div 1461
      r4 == r100 % 1461
      n1 == r4 \div 365
      n == r4 % 365
      year == n400 * 400 + 1 + n100 * 100 + n4 * 4 + n1
  IN IF n1 = 4 \/ n100 = 4 THEN <<year - 1, 12, 31>>
     ELSE LET leapyear == n1 = 3 /\ (n4 # 24 \/ n100 = 3)
              month0 == (n + 50) \div 32
              preceding0 == DAYS_BEFORE_MONTH[month0] + (IF month0 > 2 /\ leapyear THEN 1 ELSE 0)
              month == IF preceding0 > n THEN month0 - 1 ELSE month0
              preceding ==
                IF preceding0 > n
                THEN preceding0 - (DAYS_IN_MONTH[month] + (IF month = 2 /\ leapyear THEN 1 ELSE 0))
                ELSE preceding0
          IN <<year, month, n - preceding + 1>>

\* date.weekday(): Monday is 0, Sunday is 6
weekday(ordinal) == (ordinal + 6) % 7

\* date.isoformat(): yyyy-mm-dd
isoformat(ordinal) ==
  LET ymd == ord2ymd(ordinal) IN
  fmt_int(ymd[1], 4) \o <<"-">> \o fmt_int(ymd[2], 2) \o <<"-">> \o fmt_int(ymd[3], 2)

\* f"{d:02d}.{m:02d}.{y:04d}"
display_ymd(y, m, d) == fmt_int(d, 2) \o <<".">> \o fmt_int(m, 2) \o <<".">> \o fmt_int(y, 4)

\* y, m, d = map(int, iso.split("-")); <<>> stands for ValueError
ymd_of_iso(iso) ==
  LET parts == split_on(iso, "-", <<>>, <<>>) IN
  IF Len(parts) # 3 THEN <<>>
  ELSE IF int_of(parts[1]) < 0 \/ int_of(parts[2]) < 0 \/ int_of(parts[3]) < 0 THEN <<>>
  ELSE <<int_of(parts[1]), int_of(parts[2]), int_of(parts[3])>>

\* date.fromisoformat(text) of a yyyy-mm-dd text, as an ordinal; -1 stands for
\* ValueError
fromisoformat(text) ==
  LET ymd == ymd_of_iso(text) IN
  IF Len(text) # 10 \/ ymd = <<>> THEN -1
  ELSE IF Len(text) >= 8 /\ (text[5] # "-" \/ text[8] # "-") THEN -1
  ELSE IF ymd[1] < 1 \/ ymd[2] < 1 \/ ymd[2] > 12 THEN -1
  ELSE IF ymd[3] < 1 \/ ymd[3] > days_in_month(ymd[1], ymd[2]) THEN -1
  ELSE ymd2ord(ymd[1], ymd[2], ymd[3])

\* the order of str on the characters of a date text
CharRank(c) ==
  IF c = "-" THEN 0 ELSE IF c = "." THEN 1
  ELSE IF IsDigit(c) THEN 2 + DigitVal(c) ELSE 12

\* a < b for two str
RECURSIVE str_less(_, _)
str_less(a, b) ==
  IF b = <<>> THEN FALSE
  ELSE IF a = <<>> THEN TRUE
  ELSE IF Head(a) = Head(b) THEN str_less(Tail(a), Tail(b))
  ELSE CharRank(Head(a)) < CharRank(Head(b))

\* datetime.fromisoformat(text).date() as an ordinal, -1 standing for
\* ValueError.  Of the texts it accepts, yyyy-mm-dd and yyyy-mm-ddThh:mm (or a
\* space for the T) are modelled; any other text is one it refuses.
datetime_fromisoformat(text) ==
  IF Len(text) = 10 THEN fromisoformat(text)
  ELSE IF Len(text) = 16 /\ text[11] \in {"T", " "} /\ text[14] = ":"
          /\ int_of(SubSeq(text, 12, 13)) \in 0 .. 23
          /\ int_of(SubSeq(text, 15, 16)) \in 0 .. 59
  THEN fromisoformat(SubSeq(text, 1, 10))
  ELSE -1

\* a variant of to_iso_any that reads the text as mm.dd.yyyy
to_iso_any_month_first(text) ==
  LET s == strip(text) IN
  IF Len(s) = 10 /\ s[3] = "." /\ s[6] = "."
  THEN SubSeq(s, 7, 10) \o <<"-">> \o SubSeq(s, 1, 2) \o <<"-">> \o SubSeq(s, 4, 5)
  ELSE s

\* to_iso_any(s); Raised when int() raises in the dd.mm.yyyy branch, which no
\* try encloses.  The fields drawn are digits or letters (int() also takes a
\* sign and surrounding blanks, which are not drawn).
to_iso_any(text) ==
  LET s == strip(text) IN
  IF s = <<>> THEN today_iso
  ELSE IF Len(s) = 10 /\ s[3] = "." /\ s[6] = "."
  THEN LET parts == split_on(s, ".", <<>>, <<>>) IN
       IF Len(parts) # 3 THEN Raised
       ELSE LET dd == int_of(parts[1])
                mm == int_of(parts[2])
                yyyy == int_of(parts[3])
            IN IF dd < 0 \/ mm < 0 \/ yyyy < 0 THEN Raised
               ELSE fmt_int(yyyy, 4) \o <<"-">> \o fmt_int(mm, 2) \o <<"-">> \o fmt_int(dd, 2)
  ELSE IF Len(s) = 10 /\ s[5] = "-" /\ s[8] = "-" THEN s
  ELSE IF datetime_fromisoformat(s) # -1 THEN isoformat(datetime_fromisoformat(s))
  ELSE today_iso

-----------------------------------------------------------------------------
(* Request inputs of the model *)

D17 == <<"1","7",".","0","3",".","2","0","2","5">>
D18 == <<"1","8",".","0","3",".","2","0","2","5">>
D20 == <<"2","0",".","0","3",".","2","0","2","5">>
Iso17 == today_iso
Iso18 == <<"2","0","2","5","-","0","3","-","1","8">>

Ana == <<"a","n","a">>
AnaSp == <<" ","A","n","a"," ">>
Bob == <<"b","o","b">>
Zoe == <<"z","o","e">>
Anonyme == <<"A","n","o","n","y","m","e">>
Lundi == <<"L","u","n","d","i">>
Mardi == <<"M","a","r","d","i">>

\* an open Monday (today), a Tuesday that is not open, and no row for Thursday the 20th
Schedule == <<
  [date_iso |-> Iso17, jour |-> Lundi, menu |-> <<"m">>, open |-> TRUE,  disabled |-> FALSE],
  [date_iso |-> Iso18, jour |-> Mardi, menu |-> <<"m">>, open |-> FALSE, disabled |-> FALSE] >>

Backends == {"sqlite", "sheets"}
Procs == 1 .. NProcs

-----------------------------------------------------------------------------
(* Rows *)

\* the values of TillRow.type (column C of "Caisse")
T_Closed == "Closed"
T_Sandwich == "Sandwich"
T_Boisson == "Boisson"
T_Chocolat == "Chocolat"

\* the request texts api_checkout compares with
ELEVE == <<"E","L","E","V","E">>
PROF == <<"P","R","O","F">>
CARD == <<"C","A","R","D">>
CASH == <<"C","A","S","H">>

\* a variant of type_label that labels every meal as a teacher's
type_label_always_prof(typ, meth) == IF meth = CARD THEN "Prof (CARD)" ELSE "Prof (CASH)"

\* ("Eleve" if typ == "ELEVE" else "Prof") + (" (CARD)" if method == "CARD" else " (CASH)")
type_label(typ, meth) ==
  IF typ = ELEVE
  THEN (IF meth = CARD THEN "Eleve (CARD)" ELSE "Eleve (CASH)")
  ELSE (IF meth = CARD THEN "Prof (CARD)" ELSE "Prof (CASH)")

\* "eleve" in typ.lower(), on the labels a till row can carry
is_eleve_label(typ) == typ \in {"Eleve (CARD)", "Eleve (CASH)"}

\* Reservation(date_iso, name) / a row [iso, name, timestamp] of "Réservations"
ReservationRow(iso, name) == [date_iso |-> iso, name |-> name]

\* TillRow(...) / a row of "Caisse"
TillRow(iso, name, type, base, beverage, chocolate, total) ==
  [date_iso |-> iso, name |-> name, type |-> type, base |-> base,
   beverage |-> beverage, chocolate |-> chocolate, total |-> total]

-----------------------------------------------------------------------------
(* Reads of the ledgers *)

\* a variant of is_open_day that forgets the open flag
is_open_day_any_row(ps, iso) == \E i \in DOMAIN ps : ps[i].date_iso = iso

\* api_reserve: is there a schedule row of this date with open = true
is_open_day(ps, iso) == \E i \in DOMAIN ps : ps[i].date_iso = iso /\ ps[i].open

\* api_reserve: the reservations of the date
resas_of(rs, iso) == SelectSeq(rs, LAMBDA r : r.date_iso = iso)

\* variants of quota_reached that are off by one, either way
quota_reached_late(count) == count > MAX_RESAS
quota_reached_early(count) == count >= MAX_RESAS - 1

\* api_reserve: the quota test
quota_reached(count) == count >= MAX_RESAS

\* rows of the till for one date
till_of(t, iso) == SelectSeq(t, LAMBDA r : r.date_iso = iso)

\* a variant of is_closed that takes the marker of any date
is_closed_any_date(t, iso) == \E i \in DOMAIN t : t[i].type = T_Closed

is_closed(t, iso) == \E i \in DOMAIN t : t[i].date_iso = iso /\ t[i].type = T_Closed

ZeroTotals ==
  [menus |-> 0, eleves |-> 0, profs |-> 0, sandwiches |-> 0,
   beverages |-> 0, chocolates |-> 0, amount |-> 0]

\* dict.get(key, 0)
get0(d, k) == IF k \in DOMAIN d THEN d[k] ELSE 0

\* d[k] = v
put(d, k, v) == (k :> v) @@ d

\* a variant of totals_step that takes a Closed row for a meal of a guest who is
\* neither a pupil nor a teacher
totals_step_counts_closed(acc, row) ==
  LET t == acc[1]
      typ == row.type
  IN IF typ = T_Sandwich
       THEN <<[t EXCEPT !.sandwiches = @ + 1, !.amount = @ + row.total], acc[2]>>
     ELSE IF typ = T_Boisson
       THEN <<[t EXCEPT !.beverages = @ + 1, !.amount = @ + row.total], acc[2]>>
     ELSE IF typ = T_Chocolat
       THEN <<[t EXCEPT !.chocolates = @ + 1, !.amount = @ + row.total], acc[2]>>
     ELSE <<[t EXCEPT !.menus = @ + 1,
                      !.eleves = IF is_eleve_label(typ) THEN @ + 1 ELSE @,
                      !.profs = IF typ \in {"Prof (CARD)", "Prof (CASH)"} THEN @ + 1 ELSE @,
                      !.beverages = IF row.beverage > 0 THEN @ + 1 ELSE @,
                      !.chocolates = IF row.chocolate > 0 THEN @ + 1 ELSE @,
                      !.amount = @ + row.total],
            acc[2]>>

\* a variant of totals_step that adds up the three amounts of a row instead of
\* its total
totals_step_sums_columns(acc, row) ==
  LET t == acc[1]
      typ == row.type
      due == row.base + row.beverage + row.chocolate
  IN IF typ = T_Closed THEN acc
     ELSE IF typ = T_Sandwich
       THEN <<[t EXCEPT !.sandwiches = @ + 1, !.amount = @ + due], acc[2]>>
     ELSE IF typ = T_Boisson
       THEN <<[t EXCEPT !.beverages = @ + 1, !.amount = @ + due], acc[2]>>
     ELSE IF typ = T_Chocolat
       THEN <<[t EXCEPT !.chocolates = @ + 1, !.amount = @ + due], acc[2]>>
     ELSE <<[t EXCEPT !.menus = @ + 1,
                      !.eleves = IF is_eleve_label(typ) THEN @ + 1 ELSE @,
                      !.profs = IF is_eleve_label(typ) THEN @ ELSE @ + 1,
                      !.beverages = IF row.beverage > 0 THEN @ + 1 ELSE @,
                      !.chocolates = IF row.chocolate > 0 THEN @ + 1 ELSE @,
                      !.amount = @ + due],
            acc[2]>>

\* a variant of totals_step that counts the beverages and chocolates of the
\* add-on rows only
totals_step_addons_only(acc, row) ==
  LET t == acc[1]
      typ == row.type
  IN IF typ = T_Closed THEN acc
     ELSE IF typ = T_Sandwich
       THEN <<[t EXCEPT !.sandwiches = @ + 1, !.amount = @ + row.total], acc[2]>>
     ELSE IF typ = T_Boisson
       THEN <<[t EXCEPT !.beverages = @ + 1, !.amount = @ + row.total], acc[2]>>
     ELSE IF typ = T_Chocolat
       THEN <<[t EXCEPT !.chocolates = @ + 1, !.amount = @ + row.total], acc[2]>>
     ELSE <<[t EXCEPT !.menus = @ + 1,
                      !.eleves = IF is_eleve_label(typ) THEN @ + 1 ELSE @,
                      !.profs = IF is_eleve_label(typ) THEN @ ELSE @ + 1,
                      !.amount = @ + row.total],
            acc[2]>>

\* one iteration of the loop of build_totals: acc = <<t, paidCount>>
totals_step(acc, row) ==
  LET t == acc[1]
      paid == acc[2]
      typ == row.type
  IN IF typ = T_Closed THEN acc
     ELSE IF typ = T_Sandwich
       THEN <<[t EXCEPT !.sandwiches = @ + 1, !.amount = @ + row.total], paid>>
     ELSE IF typ = T_Boisson
       THEN <<[t EXCEPT !.beverages = @ + 1, !.amount = @ + row.total], paid>>
     ELSE IF typ = T_Chocolat
       THEN <<[t EXCEPT !.chocolates = @ + 1, !.amount = @ + row.total], paid>>
     ELSE LET key == norm_name(row.name) IN
          <<[t EXCEPT !.menus = @ + 1,
                      !.eleves = IF is_eleve_label(typ) THEN @ + 1 ELSE @,
                      !.profs = IF is_eleve_label(typ) THEN @ ELSE @ + 1,
                      !.beverages = IF row.beverage > 0 THEN @ + 1 ELSE @,
                      !.chocolates = IF row.chocolate > 0 THEN @ + 1 ELSE @,
                      !.amount = @ + row.total],
            IF key # <<>> THEN put(paid, key, get0(paid, key) + 1) ELSE paid>>

\* "for row in rows: ..." of build_totals over rows[a .. b], from state acc.
\* The iterations run in row order; the range is halved, and acc is looked at
\* on entry (Len(acc) is always 2), only to keep the evaluation stack shallow.
RECURSIVE totals_loop(_, _, _, _)
totals_loop(rows, a, b, acc) ==
  IF a > b \/ Len(acc) # 2 THEN acc
  ELSE IF a = b THEN totals_step(acc, rows[a])
  ELSE LET mid == (a + b) \div 2 IN
       totals_loop(rows, mid + 1, b, totals_loop(rows, a, mid, acc))

\* build_totals(iso) -> (Totals, paidCount)
build_totals(t, iso) ==
  totals_loop(till_of(t, iso), 1, Len(till_of(t, iso)), <<ZeroTotals, <<>>>>)

\* variants of capacity_reached that are off by one, either way
capacity_reached_late(menus) == menus > MAX_MENUS
capacity_reached_early(menus) == menus >= MAX_MENUS - 1

\* assert_capacity: the capacity test
capacity_reached(menus) == menus >= MAX_MENUS

\* api_caisse: the reservations shown to the cashier, in registration order
ordered_names(b, rs, iso) ==
  LET names == [i \in DOMAIN resas_of(rs, iso) |-> resas_of(rs, iso)[i].name] IN
  IF b = "sqlite" THEN names
  ELSE SelectSeq([i \in DOMAIN names |-> strip(names[i])], LAMBDA n : n # <<>>)

\* api_caisse: one iteration of the loop that drops one reservation per paid
\* meal of the same key: st = <<paid_left, remaining>>
remaining_step(st, name) ==
  LET k == norm_name(name) IN
  IF get0(st[1], k) > 0
  THEN <<put(st[1], k, st[1][k] - 1), st[2]>>
  ELSE <<st[1], Append(st[2], name)>>

\* "for r in ordered: ..." of api_caisse over ordered[a .. b], in order
\* (halved, and st looked at on entry, as in totals_loop)
RECURSIVE remaining_loop(_, _, _, _)
remaining_loop(ordered, a, b, st) ==
  IF a > b \/ Len(st) # 2 THEN st
  ELSE IF a = b THEN remaining_step(st, ordered[a])
  ELSE LET mid == (a + b) \div 2 IN
       remaining_loop(ordered, mid + 1, b, remaining_loop(ordered, a, mid, st))

\* a variant of api_caisse that shows empty Totals once the day is closed
api_caisse_blank_when_closed(b, rs, t, date) ==
  LET iso == IF date # <<>> /\ Len(date) = 10 THEN date ELSE today_iso
      bt == build_totals(t, iso)
  IN IF is_closed(t, iso)
     THEN [date |-> iso, closed |-> TRUE, names |-> <<>>, totals |-> ZeroTotals]
     ELSE [date |-> iso, closed |-> FALSE,
           names |-> remaining_loop(ordered_names(b, rs, iso), 1,
                                    Len(ordered_names(b, rs, iso)), <<bt[2], <<>>>>)[2],
           totals |-> bt[1]]

\* api_caisse(date) -> CaisseOut
api_caisse(b, rs, t, date) ==
  LET iso == IF date # <<>> /\ Len(date) = 10 THEN date ELSE today_iso
      bt == build_totals(t, iso)
  IN IF is_closed(t, iso)
     THEN [date |-> iso, closed |-> TRUE, names |-> <<>>, totals |-> bt[1]]
     ELSE [date |-> iso, closed |-> FALSE,
           names |-> remaining_loop(ordered_names(b, rs, iso), 1,
                                    Len(ordered_names(b, rs, iso)), <<bt[2], <<>>>>)[2],
           totals |-> bt[1]]

-----------------------------------------------------------------------------
(* The registration page: GET /api/initial *)

Jeudi == <<"J","e","u","d","i">>
Vendredi == <<"V","e","n","d","r","e","d","i">>
Mercredi == <<"M","e","r","c","r","e","d","i">>
Samedi == <<"S","a","m","e","d","i">>
Dimanche == <<"D","i","m","a","n","c","h","e">>

\* the tracked weekdays, in the order of the cards
wanted == <<Lundi, Mardi, Jeudi, Vendredi>>

\* mapping.get(day_name, 0) of next_weekday_str / wd[day_name] of first_open
weekday_index(day_name) ==
  IF day_name = Lundi THEN 0 ELSE IF day_name = Mardi THEN 1
  ELSE IF day_name = Mercredi THEN 2 ELSE IF day_name = Jeudi THEN 3
  ELSE IF day_name = Vendredi THEN 4 ELSE IF day_name = Samedi THEN 5
  ELSE IF day_name = Dimanche THEN 6 ELSE 0

\* a variant of next_delta: today itself when today is the weekday asked for
next_delta_same_day(today, day_name) == (weekday_index(day_name) - weekday(today)) % 7

\* delta = (target - today.weekday()) % 7 or 7
next_delta(today, day_name) ==
  LET delta == (weekday_index(day_name) - weekday(today)) % 7 IN
  IF delta # 0 THEN delta ELSE 7

\* next_weekday_str(today, day_name)
next_weekday_str(today, day_name) ==
  LET dt == ord2ymd(today + next_delta(today, day_name)) IN
  display_ymd(dt[1], dt[2], dt[3])

\* one element of "days"
Card(date, jour, menu, open, disabled) ==
  [date |-> date, jour |-> jour, menu |-> menu, open |-> open, disabled |-> disabled]

\* the schedule rows api_initial works on: app_sheets.py leaves out the rows
\* whose date does not parse
initial_rows(b, ps) ==
  IF b = "sqlite" THEN ps ELSE SelectSeq(ps, LAMBDA r : fromisoformat(r.date_iso) # -1)

\* the rows first_open_for tests the date of
named_open(rows, day_name) == SelectSeq(rows, LAMBDA r : r.jour = day_name /\ r.open)

\* a variant of candidates_of that forgets to leave out the days before today
candidates_with_past(rows, day_name, today) == named_open(rows, day_name)

\* candidates = [r for r in rows if r.jour == day_name and r.open
\*               and date.fromisoformat(r.date_iso) >= today]
candidates_of(rows, day_name, today) ==
  SelectSeq(named_open(rows, day_name), LAMBDA r : fromisoformat(r.date_iso) >= today)

\* candidates.sort(key=date_iso); candidates[0]: the sort is stable, so this is
\* the first of the candidates that no other candidate is less than
first_candidate(cands) ==
  cands[CHOOSE i \in DOMAIN cands :
          /\ \A j \in DOMAIN cands : ~str_less(cands[j].date_iso, cands[i].date_iso)
          /\ \A j \in 1 .. (i - 1) : str_less(cands[i].date_iso, cands[j].date_iso)]

\* first_open_for(day_name) / first_open(day_name); Raised when
\* date.fromisoformat raises
first_open_for(rows, day_name, today) ==
  IF \E i \in DOMAIN named_open(rows, day_name) :
        fromisoformat(named_open(rows, day_name)[i].date_iso) = -1
  THEN Card(Raised, day_name, <<>>, FALSE, FALSE)
  ELSE LET cands == candidates_of(rows, day_name, today) IN
       IF cands # <<>>
       THEN LET e == first_candidate(cands)
                ymd == ymd_of_iso(e.date_iso)
            IN Card(display_ymd(ymd[1], ymd[2], ymd[3]), day_name, e.menu, TRUE, e.disabled)
       ELSE Card(next_weekday_str(today, day_name), day_name, <<>>, FALSE, FALSE)

\* days_out = [first_open_for(w) for w in wanted]
days_out(rows, today) == [i \in DOMAIN wanted |-> first_open_for(rows, wanted[i], today)]

\* the reservations api_initial lists: app_sheets.py leaves out the rows without
\* a date or a name and those whose date does not parse
listed_resas(b, rs) ==
  IF b = "sqlite" THEN rs
  ELSE SelectSeq(rs, LAMBDA r : r.date_iso # <<>> /\ strip(r.name) # <<>>
                                  /\ ymd_of_iso(r.date_iso) # <<>>)

\* the key of reservations_map for a date
display_of_iso(iso) == display_ymd(ymd_of_iso(iso)[1], ymd_of_iso(iso)[2], ymd_of_iso(iso)[3])

\* reservations_map: dd.mm.yyyy -> the names registered for that date, in order
reservations_map(b, rs) ==
  LET rows == listed_resas(b, rs)
      keys == {display_of_iso(rows[i].date_iso) : i \in DOMAIN rows}
      names_of(k) == SelectSeq(rows, LAMBDA r : display_of_iso(r.date_iso) = k)
  IN [k \in keys |-> [i \in DOMAIN names_of(k) |->
                        IF b = "sqlite" THEN names_of(k)[i].name ELSE strip(names_of(k)[i].name)]]

\* GET /api/initial, today being date.today(): <<status, body>>
api_initial(b, ps, rs, today) ==
  LET days == days_out(initial_rows(b, ps), today) IN
  IF (\E i \in DOMAIN days : days[i].date = Raised)
     \/ (b = "sqlite" /\ \E i \in DOMAIN rs : ymd_of_iso(rs[i].date_iso) = <<>>)
  THEN <<"500", [days |-> <<>>, reservations |-> <<>>]>>
  ELSE <<"ok", [days |-> days, reservations |-> reservations_map(b, rs)]>>

-----------------------------------------------------------------------------
(* The date as the summary and the error messages show it *)

\* DAYS of app.py, Sunday first
DAYS == <<Dimanche, Lundi, Mardi, Mercredi, Jeudi, Vendredi, Samedi>>

\* days of pretty_fr_header in app_sheets.py, Monday first
days_monday_first == <<Lundi, Mardi, Mercredi, Jeudi, Vendredi, Samedi, Dimanche>>

\* a variant of pretty_fr_header whose SQLite branch indexes DAYS with the
\* weekday as the library gives it
pretty_fr_header_no_remap(b, iso) ==
  LET ymd == ymd_of_iso(iso)
      w == weekday(ymd2ord(ymd[1], ymd[2], ymd[3]))
  IN (IF b = "sqlite" THEN DAYS[w + 1] ELSE days_monday_first[w + 1])
       \o <<" ">> \o fmt_int(ymd[3], 2) \o <<".">> \o fmt_int(ymd[2], 2)

\* a variant of pretty_fr_header whose Sheets branch indexes the Sunday-first
\* table with the weekday as the library gives it
pretty_fr_header_sunday_table(b, iso) ==
  LET ymd == ymd_of_iso(iso)
      w == weekday(ymd2ord(ymd[1], ymd[2], ymd[3]))
  IN (IF b = "sqlite" THEN DAYS[(IF w < 6 THEN w + 1 ELSE 0) + 1] ELSE DAYS[w + 1])
       \o <<" ">> \o fmt_int(ymd[3], 2) \o <<".">> \o fmt_int(ymd[2], 2)

\* pretty_fr_header(iso) of either backend, for an iso that date(y, m, d) takes
pretty_fr_header(b, iso) ==
  LET ymd == ymd_of_iso(iso)
      w == weekday(ymd2ord(ymd[1], ymd[2], ymd[3]))
  IN (IF b = "sqlite" THEN DAYS[(IF w < 6 THEN w + 1 ELSE 0) + 1]
      ELSE days_monday_first[w + 1])
       \o <<" ">> \o fmt_int(ymd[3], 2) \o <<".">> \o fmt_int(ymd[2], 2)

-----------------------------------------------------------------------------
(* Responses *)

NoBody == [date |-> <<>>, closed |-> FALSE, names |-> <<>>, totals |-> ZeroTotals]

\* status: "ok", or the kind of the failure
\*   "DayClosedOrNotOpen"  HTTPException(400, "Le ... est fermé, impossible de réserver.")
\*   "QuotaExceeded"       HTTPException(400, "Quota de 40 atteint pour le ...")
\*   "NotFound"            HTTPException(400, "Pas de réservation trouvée pour ...")
\*   "Closed"              HTTPException(400, "Caisse fermée pour ...")
\*   "CapacityExceeded"    HTTPException(400, "Limite de 45 menus servis atteinte pour ...")
\*   "500"                 an exception the handler does not catch
Response(op, iso, status, body) == [op |-> op, iso |-> iso, status |-> status, body |-> body]

NoResponse == Response("none", <<>>, "ok", NoBody)

-----------------------------------------------------------------------------
(* Handlers, each run from its first line to its return as one step *)

\* POST /api/reserve
api_reserve(name, dateStr) ==
  LET iso == to_iso_any(dateStr) IN
  /\ UNCHANGED <<till, outbox>>
  /\ IF iso = Raised
     THEN /\ result' = Response("reserve", iso, "500", NoBody)
          /\ UNCHANGED resas
     ELSE IF ~is_open_day(params, iso)
     THEN /\ result' = Response("reserve", iso, "DayClosedOrNotOpen", NoBody)
          /\ UNCHANGED resas
     ELSE IF quota_reached(Len(resas_of(resas, iso)))
     THEN /\ result' = Response("reserve", iso, "QuotaExceeded", NoBody)
          /\ UNCHANGED resas
     ELSE /\ resas' = Append(resas, ReservationRow(iso, strip(name)))
          /\ result' = Response("reserve", iso, "ok", NoBody)

\* api_unreserve: does this row belong to the request
unreserve_match(row, iso, target) == row.date_iso = iso /\ strip(row.name) = target

\* the sequence without its i-th element
remove_at(seq, i) == SubSeq(seq, 1, i - 1) \o SubSeq(seq, i + 1, Len(seq))

\* POST /api/unreserve
api_unreserve(name, dateStr) ==
  LET iso == to_iso_any(dateStr)
      target == strip(name)
      hits == {i \in DOMAIN resas : unreserve_match(resas[i], iso, target)}
  IN
  /\ UNCHANGED <<till, outbox>>
  /\ IF iso = Raised
     THEN /\ result' = Response("unreserve", iso, "500", NoBody)
          /\ UNCHANGED resas
     ELSE IF hits = {}
     THEN /\ result' = Response("unreserve", iso, "NotFound", NoBody)
          /\ UNCHANGED resas
     ELSE /\ resas' = remove_at(resas, CHOOSE i \in hits : \A j \in hits : i <= j)
          /\ result' = Response("unreserve", iso, "ok", NoBody)

\* inp.dateIso or today_iso()
date_or_today(dateIso) == IF dateIso # <<>> THEN dateIso ELSE today_iso

\* a variant of checkout_row that counts the base as cash whatever the method
checkout_row_card_pays_base(iso, name, type, beverage, chocolate, method) ==
  LET typ == upper(IF type # <<>> THEN type ELSE PROF)
      meth == upper(IF method # <<>> THEN method ELSE CASH)
      base == IF typ = ELEVE THEN PRICE_ELEVE ELSE PRICE_PROF
      bev == IF beverage THEN PRICE_BOISSON ELSE 0
      choc == IF chocolate THEN PRICE_CHOCOLAT ELSE 0
  IN TillRow(iso, IF strip(name) # <<>> THEN strip(name) ELSE Anonyme,
             type_label(typ, meth), base, bev, choc, base + bev + choc)

\* the row api_checkout appends
checkout_row(iso, name, type, beverage, chocolate, method) ==
  LET typ == upper(IF type # <<>> THEN type ELSE PROF)
      meth == upper(IF method # <<>> THEN method ELSE CASH)
      base == IF typ = ELEVE THEN PRICE_ELEVE ELSE PRICE_PROF
      bev == IF beverage THEN PRICE_BOISSON ELSE 0
      choc == IF chocolate THEN PRICE_CHOCOLAT ELSE 0
      total_cash == IF meth = CARD THEN bev + choc ELSE base + bev + choc
  IN TillRow(iso, IF strip(name) # <<>> THEN strip(name) ELSE Anonyme,
             type_label(typ, meth), base, bev, choc, total_cash)

\* a variant of api_checkout that deletes the reservations of the date once a
\* meal is sold
api_checkout_drops_resas(name, type, beverage, chocolate, dateIso, method) ==
  LET iso == date_or_today(dateIso) IN
  /\ UNCHANGED outbox
  /\ IF is_closed(till, iso)
     THEN /\ result' = Response("checkout", iso, "Closed", NoBody)
          /\ UNCHANGED <<till, resas>>
     ELSE /\ till' = Append(till, checkout_row(iso, name, type, beverage, chocolate, method))
          /\ resas' = SelectSeq(resas, LAMBDA r : r.date_iso # iso)
          /\ result' = Response("checkout", iso, "ok", api_caisse(backend, resas', till', iso))

\* POST /api/checkout
api_checkout(name, type, beverage, chocolate, dateIso, method) ==
  LET iso == date_or_today(dateIso) IN
  /\ UNCHANGED <<resas, outbox>>
  /\ IF is_closed(till, iso)
     THEN /\ result' = Response("checkout", iso, "Closed", NoBody)
          /\ UNCHANGED till
     ELSE IF capacity_reached(build_totals(till, iso)[1].menus)
     THEN /\ result' = Response("checkout", iso, "CapacityExceeded", NoBody)
          /\ UNCHANGED till
     ELSE /\ till' = Append(till, checkout_row(iso, name, type, beverage, chocolate, method))
          /\ result' = Response("checkout", iso, "ok", api_caisse(backend, resas, till', iso))

\* a variant of qty_rows without the lower limit of one row
qty_rows_unclamped(qty) == IF qty # 0 THEN qty ELSE 1

\* max(1, int(inp.qty or 1))
qty_rows(qty) ==
  LET q == IF qty # 0 THEN qty ELSE 1 IN IF q > 1 THEN q ELSE 1

SandwichRow(iso) == TillRow(iso, <<>>, T_Sandwich, PRICE_SANDWICH, 0, 0, PRICE_SANDWICH)
BoissonRow(iso) == TillRow(iso, <<>>, T_Boisson, 0, PRICE_BOISSON, 0, PRICE_BOISSON)
\* a variant of ChocolatRow that charges the price of a beverage
ChocolatRow_beverage_price(iso) == TillRow(iso, <<>>, T_Chocolat, 0, 0, PRICE_CHOCOLAT, PRICE_BOISSON)
ChocolatRow(iso) == TillRow(iso, <<>>, T_Chocolat, 0, 0, PRICE_CHOCOLAT, PRICE_CHOCOLAT)
ClosedRow(iso) == TillRow(iso, <<>>, T_Closed, 0, 0, 0, 0)

\* a variant of add_rows without the call of assert_open
add_rows_unchecked(op, row, qty, iso) ==
  /\ UNCHANGED <<resas, outbox>>
  /\ till' = till \o [i \in 1 .. qty_rows(qty) |-> row]
  /\ result' = Response(op, iso, "ok", api_caisse(backend, resas, till', iso))

\* the common shape of api_add_sandwich / api_add_beverage / api_add_chocolate
add_rows(op, row, qty, iso) ==
  /\ UNCHANGED <<resas, outbox>>
  /\ IF is_closed(till, iso)
     THEN /\ result' = Response(op, iso, "Closed", NoBody)
          /\ UNCHANGED till
     ELSE /\ till' = till \o [i \in 1 .. qty_rows(qty) |-> row]
          /\ result' = Response(op, iso, "ok", api_caisse(backend, resas, till', iso))

\* POST /api/add/sandwich
api_add_sandwich(qty, dateIso) ==
  add_rows("add_sandwich", SandwichRow(date_or_today(dateIso)), qty, date_or_today(dateIso))

\* POST /api/add/beverage
api_add_beverage(qty, dateIso) ==
  add_rows("add_beverage", BoissonRow(date_or_today(dateIso)), qty, date_or_today(dateIso))

\* POST /api/add/chocolate
api_add_chocolate(qty, dateIso) ==
  add_rows("add_chocolate", ChocolatRow(date_or_today(dateIso)), qty, date_or_today(dateIso))

\* a variant of api_close that reopens a date that is already closed
api_close_toggle(dateIso, smtp) ==
  LET iso == date_or_today(dateIso) IN
  /\ UNCHANGED <<resas, outbox>>
  /\ till' = IF is_closed(till, iso)
             THEN SelectSeq(till, LAMBDA r : ~(r.date_iso = iso /\ r.type = T_Closed))
             ELSE Append(till, ClosedRow(iso))
  /\ result' = Response("close", iso, "ok", NoBody)

\* a variant of api_close that clears the day's rows when it closes the day
api_close_purge(dateIso, smtp) ==
  LET iso == date_or_today(dateIso) IN
  /\ UNCHANGED <<resas, outbox>>
  /\ till' = Append(SelectSeq(till, LAMBDA r : r.date_iso # iso), ClosedRow(iso))
  /\ result' = Response("close", iso, "ok", NoBody)

\* a variant of api_close that lets the failure of the mail reach the caller
api_close_surfaces_failure(dateIso, smtp) ==
  LET iso == date_or_today(dateIso) IN
  /\ UNCHANGED resas
  /\ outbox' = IF smtp = "unset" THEN outbox
               ELSE Append(outbox, [iso |-> iso, totals |-> build_totals(till, iso)[1],
                                    delivered |-> (smtp = "sent")])
  /\ IF smtp = "failed"
     THEN /\ till' = till
          /\ result' = Response("close", iso, "500", NoBody)
     ELSE /\ till' = Append(till, ClosedRow(iso))
          /\ result' = Response("close", iso, "ok", NoBody)

\* a variant of api_close that also clears the reservations of the day
api_close_clears_resas(dateIso, smtp) ==
  LET iso == date_or_today(dateIso) IN
  /\ resas' = SelectSeq(resas, LAMBDA r : r.date_iso # iso)
  /\ outbox' = IF smtp = "unset" THEN outbox
               ELSE Append(outbox, [iso |-> iso, totals |-> build_totals(till, iso)[1],
                                    delivered |-> (smtp = "sent")])
  /\ till' = Append(till, ClosedRow(iso))
  /\ result' = Response("close", iso, "ok", NoBody)

\* POST /api/close. smtp is what the environment does with the summary:
\*   "unset"   SMTP_TO is not set, send_summary_mail is not called
\*   "sent"    send_summary_mail returns
\*   "failed"  send_summary_mail raises, and the handler swallows the exception
api_close(dateIso, smtp) ==
  LET iso == date_or_today(dateIso) IN
  /\ UNCHANGED resas
  /\ outbox' = IF smtp = "unset" THEN outbox
               ELSE Append(outbox, [iso |-> iso, totals |-> build_totals(till, iso)[1],
                                    delivered |-> (smtp = "sent")])
  /\ till' = Append(till, ClosedRow(iso))
  /\ result' = Response("close", iso, "ok", NoBody)

-----------------------------------------------------------------------------
(* Initial ledgers *)

\* n copies of a row
Filled(n, row) == [i \in 1 .. (IF n > 0 THEN n ELSE 0) |-> row]

\* a reservation ledger that earlier registrations of today have filled up to
\* (MaxOps - 1) places below the quota
NearQuota == Filled(MAX_RESAS - (MaxOps - 1), ReservationRow(Iso17, Zoe))

\* a till that earlier cash checkouts of today have filled up to
\* (MaxTillOps - 1) meals below the capacity
NearCapacity ==
  Filled(MAX_MENUS - (MaxTillOps - 1), checkout_row(Iso17, Zoe, PROF, FALSE, FALSE, CASH))

Idle == [p \in Procs |-> "idle"]
NoRequest == [name |-> <<>>, type |-> <<>>, beverage |-> FALSE, chocolate |-> FALSE, method |-> <<>>]
NoLocals == [p \in Procs |-> [iso |-> <<>>, req |-> NoRequest, status |-> "none"]]

InitCommon ==
  /\ backend \in Backends
  /\ params = Schedule
  /\ result = NoResponse
  /\ ops = 0
  /\ outbox = <<>>
  /\ pc = Idle
  /\ loc = NoLocals

-----------------------------------------------------------------------------
(* Requests served one at a time: the reservation ledger *)

ResaNames == {Ana, AnaSp}
UnresaNames == {Ana, Zoe}
ResaDates == {D17, D18, D20}
CloseDates == {<<>>, Iso18}

\* a day that is not open (any more) and holds as many reservations as the quota
FullClosedDay == Filled(MAX_RESAS, ReservationRow(Iso18, Zoe))

InitResa ==
  /\ InitCommon
  /\ resas \in {<<>>, NearQuota, FullClosedDay}
  /\ till = <<>>

ReqReserve ==
  /\ ops < MaxOps
  /\ \E name \in ResaNames, dateStr \in ResaDates : api_reserve(name, dateStr)
  /\ ops' = ops + 1
  /\ UNCHANGED <<backend, params, pc, loc>>

ReqUnreserve ==
  /\ ops < MaxOps
  /\ \E name \in UnresaNames, dateStr \in ResaDates : api_unreserve(name, dateStr)
  /\ ops' = ops + 1
  /\ UNCHANGED <<backend, params, pc, loc>>

ReqCloseResa ==
  /\ ops < MaxOps
  /\ \E dateIso \in CloseDates : api_close(dateIso, "unset")
  /\ ops' = ops + 1
  /\ UNCHANGED <<backend, params, pc, loc>>

NextResa == ReqReserve \/ ReqUnreserve \/ ReqCloseResa

SpecResa == InitResa /\ [][NextResa]_vars

-----------------------------------------------------------------------------------------------------------------------------------------------------
(* Requests served one at a time: the till *)

eleve_lower == <<"e","l","e","v","e">>
card_lower == <<"c","a","r","d">>

\* the bodies of the checkout requests (CheckoutIn without dateIso)
CheckoutRequests == {
  [name |-> Ana,   type |-> ELEVE,       beverage |-> TRUE,  chocolate |-> FALSE, method |-> CASH],
  [name |-> AnaSp, type |-> PROF,        beverage |-> FALSE, chocolate |-> FALSE, method |-> CARD],
  [name |-> <<>>,  type |-> PROF,        beverage |-> FALSE, chocolate |-> TRUE,  method |-> CASH],
  [name |-> <<>>,  type |-> eleve_lower, beverage |-> TRUE,  chocolate |-> TRUE,  method |-> card_lower],
  [name |-> Bob,   type |-> <<>>,        beverage |-> FALSE, chocolate |-> FALSE, method |-> <<>>] }
TillDates == {<<>>, Iso18}
Quantities == {0, 2}
TillSmtpOutcomes == {"unset", "failed"}

InitTill ==
  /\ InitCommon
  /\ resas = <<ReservationRow(Iso17, Ana), ReservationRow(Iso17, Bob)>>
  /\ till \in {<<>>, NearCapacity}

ReqCheckout ==
  /\ ops < MaxTillOps
  /\ \E r \in CheckoutRequests, dateIso \in TillDates :
        api_checkout(r.name, r.type, r.beverage, r.chocolate, dateIso, r.method)
  /\ ops' = ops + 1
  /\ UNCHANGED <<backend, params, pc, loc>>

ReqAddSandwich ==
  /\ ops < MaxTillOps
  /\ \E qty \in Quantities, dateIso \in TillDates : api_add_sandwich(qty, dateIso)
  /\ ops' = ops + 1
  /\ UNCHANGED <<backend, params, pc, loc>>

ReqAddBeverage ==
  /\ ops < MaxTillOps
  /\ \E qty \in Quantities, dateIso \in TillDates : api_add_beverage(qty, dateIso)
  /\ ops' = ops + 1
  /\ UNCHANGED <<backend, params, pc, loc>>

ReqAddChocolate ==
  /\ ops < MaxTillOps
  /\ \E qty \in Quantities, dateIso \in TillDates : api_add_chocolate(qty, dateIso)
  /\ ops' = ops + 1
  /\ UNCHANGED <<backend, params, pc, loc>>

ReqClose ==
  /\ ops < MaxTillOps
  /\ \E dateIso \in TillDates, smtp \in TillSmtpOutcomes : api_close(dateIso, smtp)
  /\ ops' = ops + 1
  /\ UNCHANGED <<backend, params, pc, loc>>

NextTill == ReqCheckout \/ ReqAddSandwich \/ ReqAddBeverage \/ ReqAddChocolate \/ ReqClose

SpecTill == InitTill /\ [][NextTill]_vars

-----------------------------------------------------------------------------
(* Requests served at the same time.  FastAPI runs each "def" handler in a   *)
(* worker thread of its pool, and neither backend holds a lock or a          *)
(* transaction from a handler's reads to its write: every access to the      *)
(* store (a select, a get_all_values, an insert + commit, an append_row) is  *)
(* one step, and the steps of different threads interleave.                  *)

\* the ledgers just below the quota and just below the capacity
OneBelowQuota == Filled(MAX_RESAS - 1, ReservationRow(Iso17, Zoe))
OneBelowCapacity ==
  Filled(MAX_MENUS - 1, checkout_row(Iso17, Zoe, PROF, FALSE, FALSE, CASH))

RaceNames == {Ana, Bob}
RaceDates == {D17, D18}
RaceCheckoutRequests == {
  [name |-> Ana,  type |-> ELEVE, beverage |-> TRUE,  chocolate |-> FALSE, method |-> CASH],
  [name |-> <<>>, type |-> PROF,  beverage |-> FALSE, chocolate |-> FALSE, method |-> CARD] }

InitRace ==
  /\ InitCommon
  /\ resas \in {<<>>, OneBelowQuota}
  /\ till \in {<<>>, OneBelowCapacity}

\* thread p ends its request with this status
Finish(p, op, iso, status, body) ==
  /\ pc' = [pc EXCEPT ![p] = "done"]
  /\ loc' = [loc EXCEPT ![p].status = status, ![p].iso = iso]
  /\ result' = Response(op, iso, status, body)

\* api_reserve, up to the select / get_all_values of the schedule
reserve_begin(p) ==
  /\ pc[p] = "idle"
  /\ \E name \in RaceNames, dateStr \in RaceDates :
       LET iso == to_iso_any(dateStr) IN
       IF iso = Raised THEN Finish(p, "reserve", iso, "500", NoBody)
       ELSE IF ~is_open_day(params, iso)
       THEN Finish(p, "reserve", iso, "DayClosedOrNotOpen", NoBody)
       ELSE /\ pc' = [pc EXCEPT ![p] = "reserve_quota"]
            /\ loc' = [loc EXCEPT ![p] = [iso |-> iso, req |-> [NoRequest EXCEPT !.name = name],
                                          status |-> "none"]]
            /\ UNCHANGED result
  /\ ops' = ops + 1
  /\ UNCHANGED <<backend, params, resas, till, outbox>>

\* api_reserve: the select / get_all_values of the reservations and the quota test
reserve_quota(p) ==
  /\ pc[p] = "reserve_quota"
  /\ IF quota_reached(Len(resas_of(resas, loc[p].iso)))
     THEN Finish(p, "reserve", loc[p].iso, "QuotaExceeded", NoBody)
     ELSE /\ pc' = [pc EXCEPT ![p] = "reserve_append"]
          /\ UNCHANGED <<loc, result>>
  /\ UNCHANGED <<backend, params, resas, till, outbox, ops>>

\* api_reserve: s.add + s.commit / append_row
reserve_append(p) ==
  /\ pc[p] = "reserve_append"
  /\ resas' = Append(resas, ReservationRow(loc[p].iso, strip(loc[p].req.name)))
  /\ Finish(p, "reserve", loc[p].iso, "ok", NoBody)
  /\ UNCHANGED <<backend, params, till, outbox, ops>>

\* api_checkout, up to assert_open
checkout_begin(p) ==
  /\ pc[p] = "idle"
  /\ \E r \in RaceCheckoutRequests :
       LET iso == date_or_today(<<>>) IN
       IF is_closed(till, iso)
       THEN Finish(p, "checkout", iso, "Closed", NoBody)
       ELSE /\ pc' = [pc EXCEPT ![p] = "checkout_capacity"]
            /\ loc' = [loc EXCEPT ![p] = [iso |-> iso, req |-> r, status |-> "none"]]
            /\ UNCHANGED result
  /\ ops' = ops + 1
  /\ UNCHANGED <<backend, params, resas, till, outbox>>

\* api_checkout: assert_capacity
checkout_capacity(p) ==
  /\ pc[p] = "checkout_capacity"
  /\ IF capacity_reached(build_totals(till, loc[p].iso)[1].menus)
     THEN Finish(p, "checkout", loc[p].iso, "CapacityExceeded", NoBody)
     ELSE /\ pc' = [pc EXCEPT ![p] = "checkout_append"]
          /\ UNCHANGED <<loc, result>>
  /\ UNCHANGED <<backend, params, resas, till, outbox, ops>>

\* api_checkout: s.add + s.commit / append_row
checkout_append(p) ==
  /\ pc[p] = "checkout_append"
  /\ till' = Append(till, checkout_row(loc[p].iso, loc[p].req.name, loc[p].req.type,
                                       loc[p].req.beverage, loc[p].req.chocolate,
                                       loc[p].req.method))
  /\ pc' = [pc EXCEPT ![p] = "checkout_caisse"]
  /\ UNCHANGED <<backend, params, resas, outbox, ops, loc, result>>

\* api_checkout: return api_caisse(iso)
checkout_caisse(p) ==
  /\ pc[p] = "checkout_caisse"
  /\ Finish(p, "checkout", loc[p].iso, "ok", api_caisse(backend, resas, till, loc[p].iso))
  /\ UNCHANGED <<backend, params, resas, till, outbox, ops>>

ThreadReserve == \E p \in Procs : reserve_begin(p) \/ reserve_quota(p) \/ reserve_append(p)

ThreadCheckout ==
  \E p \in Procs :
    checkout_begin(p) \/ checkout_capacity(p) \/ checkout_append(p) \/ checkout_caisse(p)

NextRace == ThreadReserve \/ ThreadCheckout

SpecRace == InitRace /\ [][NextRace]_vars

-----------------------------------------------------------------------------
(* Requests served one at a time by one worker: the registration page and    *)
(* the cashier's desk together, on short ledgers.  loc[1].req keeps the body *)
(* of the request being served.                                              *)

Blank == <<" ">>
anonyme_lower == <<"a","n","o","n","y","m","e">>

DeskResaNames == {Ana, AnaSp, Blank, anonyme_lower}
DeskUnresaNames == {Ana, AnaSp}
DeskResaDates == {D17}
DeskUnresaDates == {D17, D18}
DeskCheckoutRequests == {
  [name |-> Ana,     type |-> ELEVE,       beverage |-> TRUE,  chocolate |-> FALSE, method |-> CASH],
  [name |-> AnaSp,   type |-> PROF,        beverage |-> FALSE, chocolate |-> TRUE,  method |-> card_lower],
  [name |-> <<>>,    type |-> <<>>,        beverage |-> FALSE, chocolate |-> TRUE,  method |-> <<>>],
  [name |-> Anonyme, type |-> eleve_lower, beverage |-> TRUE,  chocolate |-> TRUE,  method |-> CARD] }
DeskQuantities == {-1, 0, 2}
DeskSmtpOutcomes == {"unset", "sent", "failed"}
DeskReadDates == {Iso17, <<>>}

\* the body of a request that carries a name only
NameRequest(name) == [NoRequest EXCEPT !.name = name]

\* the body of an add-on request (QtyIn without dateIso)
QtyRequest(qty) ==
  [name |-> <<>>, type |-> <<>>, beverage |-> FALSE, chocolate |-> FALSE, method |-> <<>>,
   qty |-> qty]

InitDesk ==
  /\ InitCommon
  /\ resas = <<>>
  /\ till = <<>>

DeskReserve ==
  /\ ops < MaxDeskOps
  /\ \E name \in DeskResaNames, dateStr \in DeskResaDates :
        /\ api_reserve(name, dateStr)
        /\ loc' = [loc EXCEPT ![1].req = NameRequest(name)]
  /\ ops' = ops + 1
  /\ UNCHANGED <<backend, params, pc>>

DeskUnreserve ==
  /\ ops < MaxDeskOps
  /\ \E name \in DeskUnresaNames, dateStr \in DeskUnresaDates :
        /\ api_unreserve(name, dateStr)
        /\ loc' = [loc EXCEPT ![1].req = NameRequest(name)]
  /\ ops' = ops + 1
  /\ UNCHANGED <<backend, params, pc>>

DeskCheckout ==
  /\ ops < MaxDeskOps
  /\ \E r \in DeskCheckoutRequests :
        /\ api_checkout(r.name, r.type, r.beverage, r.chocolate, <<>>, r.method)
        /\ loc' = [loc EXCEPT ![1].req = r]
  /\ ops' = ops + 1
  /\ UNCHANGED <<backend, params, pc>>

DeskAddSandwich ==
  /\ ops < MaxDeskOps
  /\ \E qty \in DeskQuantities :
        /\ api_add_sandwich(qty, <<>>)
        /\ loc' = [loc EXCEPT ![1].req = QtyRequest(qty)]
  /\ ops' = ops + 1
  /\ UNCHANGED <<backend, params, pc>>

DeskAddBeverage ==
  /\ ops < MaxDeskOps
  /\ \E qty \in DeskQuantities :
        /\ api_add_beverage(qty, <<>>)
        /\ loc' = [loc EXCEPT ![1].req = QtyRequest(qty)]
  /\ ops' = ops + 1
  /\ UNCHANGED <<backend, params, pc>>

DeskAddChocolate ==
  /\ ops < MaxDeskOps
  /\ \E qty \in DeskQuantities :
        /\ api_add_chocolate(qty, <<>>)
        /\ loc' = [loc EXCEPT ![1].req = QtyRequest(qty)]
  /\ ops' = ops + 1
  /\ UNCHANGED <<backend, params, pc>>

DeskClose ==
  /\ ops < MaxDeskOps
  /\ \E smtp \in DeskSmtpOutcomes : api_close(<<>>, smtp)
  /\ ops' = ops + 1
  /\ loc' = [loc EXCEPT ![1].req = NoRequest]
  /\ UNCHANGED <<backend, params, pc>>

\* GET /api/caisse
DeskCaisse ==
  /\ ops < MaxDeskOps
  /\ \E date \in DeskReadDates :
        result' = Response("caisse", IF date # <<>> /\ Len(date) = 10 THEN date ELSE today_iso,
                           "ok", api_caisse(backend, resas, till, date))
  /\ ops' = ops + 1
  /\ loc' = [loc EXCEPT ![1].req = NoRequest]
  /\ UNCHANGED <<backend, params, resas, till, outbox, pc>>

NextDesk ==
  \/ DeskReserve \/ DeskUnreserve \/ DeskCheckout
  \/ DeskAddSandwich \/ DeskAddBeverage \/ DeskAddChocolate
  \/ DeskClose \/ DeskCaisse

SpecDesk == InitDesk /\ [][NextDesk]_vars

-----------------------------------------------------------------------------
(* One day at the till, from its first sale to after its close: checkouts,   *)
(* sandwiches and the close, served one at a time on a day that is open and  *)
(* has no reservation.                                                       *)

DayCheckoutRequests == {
  [name |-> Ana,  type |-> ELEVE, beverage |-> TRUE,  chocolate |-> FALSE, method |-> CASH],
  [name |-> <<>>, type |-> PROF,  beverage |-> FALSE, chocolate |-> TRUE,  method |-> CARD] }
DayQuantities == {1, 2}

InitDay ==
  /\ InitCommon
  /\ resas = <<>>
  /\ till = <<>>

DayCheckout ==
  /\ ops < MaxDayOps
  /\ \E r \in DayCheckoutRequests :
        /\ api_checkout(r.name, r.type, r.beverage, r.chocolate, <<>>, r.method)
        /\ loc' = [loc EXCEPT ![1].req = r]
  /\ ops' = ops + 1
  /\ UNCHANGED <<backend, params, pc>>

DayAddSandwich ==
  /\ ops < MaxDayOps
  /\ \E qty \in DayQuantities :
        /\ api_add_sandwich(qty, <<>>)
        /\ loc' = [loc EXCEPT ![1].req = QtyRequest(qty)]
  /\ ops' = ops + 1
  /\ UNCHANGED <<backend, params, pc>>

DayClose ==
  /\ ops < MaxDayOps
  /\ api_close(<<>>, "unset")
  /\ ops' = ops + 1
  /\ loc' = [loc EXCEPT ![1].req = NoRequest]
  /\ UNCHANGED <<backend, params, pc>>

NextDay == DayCheckout \/ DayAddSandwich \/ DayClose

SpecDay == InitDay /\ [][NextDay]_vars

-----------------------------------------------------------------------------
(* The registration page loaded once, on some day, over some schedule.  The   *)
(* schedule rows carry calendar dates (the admin import writes them); a row's *)
(* weekday name is whatever the import gave it, right or wrong.               *)

Dec29 == <<"2","0","2","5","-","1","2","-","2","9">>
Jan01 == <<"2","0","2","6","-","0","1","-","0","1">>
Jan05 == <<"2","0","2","6","-","0","1","-","0","5">>

\* a date_iso that /admin/import stored as the file gave it, dd.mm.yyyy
Dec29Display == <<"2","9",".","1","2",".","2","0","2","5">>

PoolDates == {Dec29, Jan01, Jan05}

\* the rows an import can write: Mondays open or not, 1 January under the name
\* of its weekday or under another, and one open row whose date is not in the
\* ISO form
PoolRows ==
  { [date_iso |-> d, jour |-> Lundi, open |-> o] : d \in PoolDates, o \in BOOLEAN }
    \cup { [date_iso |-> Jan01, jour |-> Jeudi, open |-> TRUE],
           [date_iso |-> Jan05, jour |-> Jeudi, open |-> TRUE],
           [date_iso |-> Dec29Display, jour |-> Lundi, open |-> TRUE] }

\* the menu of the i-th row of a schedule
MenuAt(i) == <<"m", DigitChars[i + 1]>>

\* the schedules of at most MaxEntries rows, in the order of the table
Schedules ==
  UNION {
    { [i \in 1 .. n |-> [date_iso |-> rs[i].date_iso, jour |-> rs[i].jour, menu |-> MenuAt(i),
                          open |-> rs[i].open, disabled |-> ~rs[i].open]] :
        rs \in [1 .. n -> PoolRows] }
    : n \in 0 .. MaxEntries }

\* Friday 26 December 2025 and the days after it, and two days before the leap
\* day of 2024
Todays ==
  {ymd2ord(2025, 12, 26) + k : k \in 0 .. (MaxTodays - 1)}
    \cup {ymd2ord(2024, 2, 23), ymd2ord(2024, 2, 28)}

InitInitial ==
  /\ backend \in Backends
  /\ params \in Schedules
  /\ resas = <<ReservationRow(Dec29, Ana), ReservationRow(Jan01, Bob), ReservationRow(Dec29, Zoe)>>
  /\ till = <<>>
  /\ result = NoResponse
  /\ ops = 0
  /\ outbox = <<>>
  /\ pc = Idle
  /\ loc = NoLocals

ReqInitial ==
  /\ ops = 0
  /\ \E today \in Todays :
        LET r == api_initial(backend, params, resas, today)
        IN result' = Response("initial", isoformat(today), r[1], r[2])
  /\ ops' = ops + 1
  /\ UNCHANGED <<backend, params, resas, till, outbox, pc, loc>>

NextInitial == ReqInitial

SpecInitial == InitInitial /\ [][NextInitial]_vars

-----------------------------------------------------------------------------
(* The date codec on its own: a text arrives as the dateStr of a request and  *)
(* to_iso_any is applied to it.                                               *)

\* the body of a request that carries a date (ReserveIn without the name)
DateRequest(dateStr) == [name |-> <<>>, dateStr |-> dateStr]

CodecDays == {<<"1","7">>, <<"a","b">>}
CodecMonths == {<<"0","3">>, <<"c","d">>}
CodecYears == {<<"2","0","2","5">>, <<"e","f","g","h">>}
CodecSeps == {".", "-", "/"}

\* day, month and year fields in either order under each separator, and texts
\* of other shapes: empty, blank, padded, with a time, words
CodecTexts ==
  { d \o <<c>> \o m \o <<c>> \o y : d \in CodecDays, m \in CodecMonths, y \in CodecYears,
                                      c \in CodecSeps }
    \cup { y \o <<c>> \o m \o <<c>> \o d : d \in CodecDays, m \in CodecMonths, y \in CodecYears,
                                           c \in CodecSeps }
    \cup { <<>>, <<" ", " ">>, <<" ">> \o Iso18 \o <<" ">>,
           Iso18 \o <<"T","1","2",":","3","0">>, Iso18 \o <<"T","x","x",":","3","0">>,
           <<"d","e","m","a","i","n">>, <<"1","8",".","0","3",".","2","5">> }

InitCodec ==
  /\ backend \in Backends
  /\ params = Schedule
  /\ resas = <<>>
  /\ till = <<>>
  /\ result = NoResponse
  /\ ops = 0
  /\ outbox = <<>>
  /\ pc = Idle
  /\ \E t \in CodecTexts : loc = [NoLocals EXCEPT ![1].req = DateRequest(t)]

\* iso = to_iso_any(inp.dateStr)
ConvertDate ==
  /\ ops = 0
  /\ LET iso == to_iso_any(loc[1].req.dateStr) IN
       result' = IF iso = Raised THEN Response("to_iso_any", <<>>, "500", NoBody)
                 ELSE Response("to_iso_any", iso, "ok", NoBody)
  /\ ops' = ops + 1
  /\ UNCHANGED <<backend, params, resas, till, outbox, pc, loc>>

NextCodec == ConvertDate

SpecCodec == InitCodec /\ [][NextCodec]_vars

-----------------------------------------------------------------------------
(* A calendar date on its way in and out: the page sends it as dd.mm.yyyy or  *)
(* as yyyy-mm-dd, to_iso_any makes the stored form of it, and api_initial     *)
(* renders the stored form for the page.                                      *)

\* the days from 27 February 2024, from 13 March 2025 and from 28 December 2025
RoundDays ==
  { first + k : first \in {ymd2ord(2024, 2, 27), ymd2ord(2025, 3, 13), ymd2ord(2025, 12, 28)},
                k \in 0 .. (MaxDates - 1) }

\* the text of a day in the form the page shows
display_of_day(day) == display_ymd(ord2ymd(day)[1], ord2ymd(day)[2], ord2ymd(day)[3])

InitRound ==
  /\ backend \in Backends
  /\ params = Schedule
  /\ resas = <<>>
  /\ till = <<>>
  /\ result = NoResponse
  /\ ops = 0
  /\ outbox = <<>>
  /\ pc = Idle
  /\ \E day \in RoundDays : \E t \in {display_of_day(day), isoformat(day)} :
        loc = [NoLocals EXCEPT ![1].req = DateRequest(t)]

\* key = f"{d:02d}.{m:02d}.{y:04d}" of a stored date
RenderDate ==
  /\ ops = 1
  /\ result.op = "to_iso_any"
  /\ result.status = "ok"
  /\ result' = IF ymd_of_iso(result.iso) = <<>> THEN Response("display", result.iso, "500", NoBody)
                ELSE Response("display", result.iso, "ok",
                              [NoBody EXCEPT !.date = display_of_iso(result.iso)])
  /\ ops' = ops + 1
  /\ UNCHANGED <<backend, params, resas, till, outbox, pc, loc>>

\* pretty_fr_header(iso) of a stored date
HeaderDate ==
  /\ ops = 1
  /\ result.op = "to_iso_any"
  /\ result.status = "ok"
  /\ fromisoformat(result.iso) # -1
  /\ result' = Response("header", result.iso, "ok",
                         [NoBody EXCEPT !.date = pretty_fr_header(backend, result.iso)])
  /\ ops' = ops + 1
  /\ UNCHANGED <<backend, params, resas, till, outbox, pc, loc>>

NextRound == ConvertDate \/ RenderDate \/ HeaderDate

SpecRound == InitRound /\ [][NextRound]_vars

-----------------------------------------------------------------------------
(* The cashier's desk served by several worker threads while the day is being *)
(* closed: checkouts, add-ons and closes of today, each access to the store   *)
(* being one step.  The checkout steps are those of the requests above.       *)

ClosingQuantities == {1, 2}
ClosingSmtpOutcomes == {"unset", "sent", "failed"}

InitClosing ==
  /\ InitCommon
  /\ resas = <<ReservationRow(Iso17, Ana)>>
  /\ till = <<>>

\* api_add_sandwich, up to assert_open
addon_begin(p) ==
  /\ pc[p] = "idle"
  /\ \E qty \in ClosingQuantities :
       LET iso == date_or_today(<<>>) IN
       IF is_closed(till, iso)
       THEN Finish(p, "add_sandwich", iso, "Closed", NoBody)
       ELSE /\ pc' = [pc EXCEPT ![p] = "addon_append"]
            /\ loc' = [loc EXCEPT ![p] = [iso |-> iso, req |-> QtyRequest(qty), status |-> "none"]]
            /\ UNCHANGED result
  /\ ops' = ops + 1
  /\ UNCHANGED <<backend, params, resas, till, outbox>>

\* api_add_sandwich: the s.add loop + s.commit / append_rows
addon_append(p) ==
  /\ pc[p] = "addon_append"
  /\ till' = till \o [i \in 1 .. qty_rows(loc[p].req.qty) |-> SandwichRow(loc[p].iso)]
  /\ pc' = [pc EXCEPT ![p] = "addon_caisse"]
  /\ UNCHANGED <<backend, params, resas, outbox, ops, loc, result>>

\* api_add_sandwich: return api_caisse(iso)
addon_caisse(p) ==
  /\ pc[p] = "addon_caisse"
  /\ Finish(p, "add_sandwich", loc[p].iso, "ok", api_caisse(backend, resas, till, loc[p].iso))
  /\ UNCHANGED <<backend, params, resas, till, outbox, ops>>

\* api_close, up to the call of send_summary_mail: app.py computes the Totals
\* in any case, app_sheets.py when SMTP_TO is set
close_begin(p) ==
  /\ pc[p] = "idle"
  /\ \E smtp \in ClosingSmtpOutcomes :
       LET iso == date_or_today(<<>>)
           reads == backend = "sqlite" \/ smtp # "unset"
       IN /\ pc' = [pc EXCEPT ![p] = IF smtp = "unset" THEN "close_append" ELSE "close_mail"]
          /\ loc' = [loc EXCEPT ![p] =
                       [iso |-> iso, req |-> NoRequest, status |-> "none", smtp |-> smtp,
                        t |-> IF reads THEN build_totals(till, iso)[1] ELSE ZeroTotals]]
  /\ ops' = ops + 1
  /\ UNCHANGED <<backend, params, resas, till, outbox, result>>

\* api_close: send_summary_mail(iso, t) returns or raises
close_mail(p) ==
  /\ pc[p] = "close_mail"
  /\ outbox' = Append(outbox, [iso |-> loc[p].iso, totals |-> loc[p].t,
                               delivered |-> (loc[p].smtp = "sent")])
  /\ pc' = [pc EXCEPT ![p] = "close_append"]
  /\ UNCHANGED <<backend, params, resas, till, ops, loc, result>>

\* api_close: s.add(TillRow(type="Closed")) + s.commit / append_row
close_append(p) ==
  /\ pc[p] = "close_append"
  /\ till' = Append(till, ClosedRow(loc[p].iso))
  /\ Finish(p, "close", loc[p].iso, "ok", NoBody)
  /\ UNCHANGED <<backend, params, resas, outbox, ops>>

ThreadAddOn == \E p \in Procs : addon_begin(p) \/ addon_append(p) \/ addon_caisse(p)

ThreadClose == \E p \in Procs : close_begin(p) \/ close_mail(p) \/ close_append(p)

NextClosing == ThreadCheckout \/ ThreadAddOn \/ ThreadClose

SpecClosing == InitClosing /\ [][NextClosing]_vars

-----------------------------------------------------------------------------
(* Several dates side by side: requests served one at a time for today, for   *)
(* tomorrow (both open for registration) and for a date the schedule does not *)
(* have.  The response keeps the date of the request.                         *)

Iso20 == <<"2","0","2","5","-","0","3","-","2","0">>

FrameSchedule == <<
  [date_iso |-> Iso17, jour |-> Lundi, menu |-> <<"m">>, open |-> TRUE, disabled |-> FALSE],
  [date_iso |-> Iso18, jour |-> Mardi, menu |-> <<"m">>, open |-> TRUE, disabled |-> FALSE] >>

FrameDateStrs == {D17, D18, D20}
FrameDateIsos == {<<>>, Iso18, Iso20}
FrameDates == {Iso17, Iso18, Iso20}
FrameCheckoutRequests == {
  [name |-> Ana,  type |-> ELEVE, beverage |-> TRUE,  chocolate |-> FALSE, method |-> CASH],
  [name |-> <<>>, type |-> PROF,  beverage |-> FALSE, chocolate |-> FALSE, method |-> CARD] }

InitFrame ==
  /\ backend \in Backends
  /\ params = FrameSchedule
  /\ resas = <<ReservationRow(Iso17, Bob), ReservationRow(Iso18, Bob)>>
  /\ till = <<>>
  /\ result = NoResponse
  /\ ops = 0
  /\ outbox = <<>>
  /\ pc = Idle
  /\ loc = NoLocals

FrameReserve ==
  /\ ops < MaxFrameOps
  /\ \E dateStr \in FrameDateStrs :
        /\ api_reserve(Ana, dateStr)
        /\ loc' = [loc EXCEPT ![1].req = NameRequest(Ana)]
  /\ ops' = ops + 1
  /\ UNCHANGED <<backend, params, pc>>

FrameUnreserve ==
  /\ ops < MaxFrameOps
  /\ \E name \in {Ana, Bob}, dateStr \in FrameDateStrs :
        /\ api_unreserve(name, dateStr)
        /\ loc' = [loc EXCEPT ![1].req = NameRequest(name)]
  /\ ops' = ops + 1
  /\ UNCHANGED <<backend, params, pc>>

FrameCheckout ==
  /\ ops < MaxFrameOps
  /\ \E r \in FrameCheckoutRequests, dateIso \in FrameDateIsos :
        /\ api_checkout(r.name, r.type, r.beverage, r.chocolate, dateIso, r.method)
        /\ loc' = [loc EXCEPT ![1].req = r]
  /\ ops' = ops + 1
  /\ UNCHANGED <<backend, params, pc>>

FrameAddSandwich ==
  /\ ops < MaxFrameOps
  /\ \E dateIso \in FrameDateIsos :
        /\ api_add_sandwich(2, dateIso)
        /\ loc' = [loc EXCEPT ![1].req = QtyRequest(2)]
  /\ ops' = ops + 1
  /\ UNCHANGED <<backend, params, pc>>

FrameClose ==
  /\ ops < MaxFrameOps
  /\ \E dateIso \in FrameDateIsos : api_close(dateIso, "sent")
  /\ ops' = ops + 1
  /\ loc' = [loc EXCEPT ![1].req = NoRequest]
  /\ UNCHANGED <<backend, params, pc>>

NextFrame == FrameReserve \/ FrameUnreserve \/ FrameCheckout \/ FrameAddSandwich \/ FrameClose

SpecFrame == InitFrame /\ [][NextFrame]_vars

-----------------------------------------------------------------------------
(* Unregistrations served by several worker threads on the sheet              *)
(* "Réservations": api_unreserve of app_sheets.py reads the sheet, finds the  *)
(* number of the row to delete, and deletes the row of that number in a       *)
(* second call.                                                               *)

SheetUnresaNames == {Ana, Bob, Zoe}
SheetUnresaDateStrs == {D17, D18}

InitUnresa ==
  /\ backend = "sheets"
  /\ params = FrameSchedule
  /\ resas = <<ReservationRow(Iso17, Ana), ReservationRow(Iso17, Bob),
               ReservationRow(Iso18, Ana), ReservationRow(Iso17, Zoe)>>
  /\ till = <<>>
  /\ result = NoResponse
  /\ ops = 0
  /\ outbox = <<>>
  /\ pc = Idle
  /\ loc = NoLocals

\* api_unreserve: get_all_values and the search of the first matching row
unreserve_find(p) ==
  /\ pc[p] = "idle"
  /\ \E name \in SheetUnresaNames, dateStr \in SheetUnresaDateStrs :
       LET iso == to_iso_any(dateStr)
           hits == {i \in DOMAIN resas : unreserve_match(resas[i], iso, strip(name))}
       IN IF hits = {}
          THEN Finish(p, "unreserve", iso, "NotFound", NoBody)
          ELSE /\ pc' = [pc EXCEPT ![p] = "unreserve_delete"]
               /\ loc' = [loc EXCEPT ![p] =
                            [iso |-> iso, req |-> NameRequest(name), status |-> "none",
                             i |-> CHOOSE i \in hits : \A j \in hits : i <= j]]
               /\ UNCHANGED result
  /\ ops' = ops + 1
  /\ UNCHANGED <<backend, params, resas, till, outbox>>

\* api_unreserve: rsh.delete_rows(i).  A row number past the last row of the
\* grid makes the call fail; past the last filled row, it deletes an empty row.
unreserve_delete(p) ==
  /\ pc[p] = "unreserve_delete"
  /\ IF loc[p].i <= Len(resas)
     THEN /\ resas' = remove_at(resas, loc[p].i)
          /\ Finish(p, "unreserve", loc[p].iso, "ok", NoBody)
     ELSE /\ UNCHANGED resas
          /\ \E status \in {"ok", "500"} : Finish(p, "unreserve", loc[p].iso, status, NoBody)
  /\ UNCHANGED <<backend, params, till, outbox, ops>>

ThreadUnreserve == \E p \in Procs : unreserve_find(p) \/ unreserve_delete(p)

NextUnresa == ThreadUnreserve

SpecUnresa == InitUnresa /\ [][NextUnresa]_vars

-----------------------------------------------------------------------------
(* Properties *)

ResaDatesIn(rs) == {rs[i].date_iso : i \in DOMAIN rs}
TillDatesIn(t) == {t[i].date_iso : i \in DOMAIN t}
Menus(t, iso) == build_totals(t, iso)[1].menus
TillWriteOps == {"checkout", "add_sandwich", "add_beverage", "add_chocolate"}

\* seq2 is seq1 with exactly one more row at its end
AppendsOne(seq1, seq2) == Len(seq2) = Len(seq1) + 1 /\ SubSeq(seq2, 1, Len(seq1)) = seq1

\* C1: with register and unregister requests served one at a time, no date ever
\* holds more than 40 reservations.
C1_QuotaNeverExceeded ==
  \A d \in ResaDatesIn(resas) : Len(resas_of(resas, d)) <= MAX_RESAS

\* C1, its case: a register request has just been refused at a full date
C1_Witness ==
  /\ result.op = "reserve"
  /\ result.status = "QuotaExceeded"
  /\ Len(resas_of(resas, result.iso)) = MAX_RESAS

\* C2: a checkout or an add-on request for a date whose till holds a Closed row
\* fails with Closed and leaves the till as it was.
C2_ClosedRejectsTillWrites ==
  [][(ops' = ops + 1 /\ result'.op \in TillWriteOps /\ is_closed(till, result'.iso))
       => (result'.status = "Closed" /\ till' = till)]_vars

\* C2, its case: a till request has just been refused on a closed date
C2_Witness ==
  /\ result.op \in {"add_sandwich", "add_beverage", "add_chocolate"}
  /\ result.status = "Closed"
  /\ is_closed(till, result.iso)

\* C3: a register or an unregister request for a date whose till holds a Closed
\* row fails and leaves the reservation ledger as it was.
C3_ClosedRejectsReservations ==
  [][(ops' = ops + 1 /\ result'.op \in {"reserve", "unreserve"}
        /\ is_closed(till, result'.iso))
       => (result'.status # "ok" /\ resas' = resas)]_vars

\* C4: a date that is closed is closed in every later state.
C4_ClosedIsOneWay ==
  [][\A d \in TillDatesIn(till) : is_closed(till, d) => is_closed(till', d)]_vars

\* C4, its case: a request has been served after the close of its date, or of
\* another date, and the closed date is still closed
C4_Witness ==
  /\ is_closed(till, Iso17)
  /\ result.op # "close"
  /\ result.op # "none"

\* C5: with checkout, add-on and close requests served one at a time, no date
\* ever holds more than 45 meal rows.
C5_CapacityNeverExceeded ==
  \A d \in TillDatesIn(till) : Menus(till, d) <= MAX_MENUS

\* C5, its case: a checkout has just been refused at a full date
C5_Witness ==
  /\ result.op = "checkout"
  /\ result.status = "CapacityExceeded"
  /\ Menus(till, result.iso) = MAX_MENUS

\* C6: whatever the interleaving of concurrent register requests, no date holds
\* more than 40 reservations.
C6_QuotaUnderConcurrency ==
  \A d \in ResaDatesIn(resas) :
     Cardinality({i \in DOMAIN resas : resas[i].date_iso = d}) <= MAX_RESAS

\* C7: whatever the interleaving of concurrent checkouts, no date holds more
\* than 45 meal rows.
C7_CapacityUnderConcurrency ==
  \A d \in TillDatesIn(till) : build_totals(till, d)[1].menus <= MAX_MENUS

\* C8: on an open date, a register request made at 39 reservations succeeds and
\* appends one reservation of that date; one made at 40 fails with QuotaExceeded
\* and leaves the ledger as it was.
C8_QuotaBoundary ==
  [][(ops' = ops + 1 /\ result'.op = "reserve" /\ is_open_day(params, result'.iso))
       => LET n == Len(resas_of(resas, result'.iso)) IN
          /\ n = MAX_RESAS - 1 =>
               /\ result'.status = "ok"
               /\ AppendsOne(resas, resas')
               /\ resas'[Len(resas')].date_iso = result'.iso
          /\ n = MAX_RESAS =>
               /\ result'.status = "QuotaExceeded"
               /\ resas' = resas]_vars

\* C8, its case: the 40th registration of a date has just succeeded
C8_Witness ==
  /\ result.op = "reserve"
  /\ result.status = "ok"
  /\ Len(resas_of(resas, result.iso)) = MAX_RESAS

\* C9: on a date that is not closed, a checkout made at 44 meal rows succeeds and
\* appends one meal row of that date; one made at 45 fails with CapacityExceeded
\* and leaves the till as it was.
C9_CapacityBoundary ==
  [][(ops' = ops + 1 /\ result'.op = "checkout" /\ ~is_closed(till, result'.iso))
       => LET n == Menus(till, result'.iso) IN
          /\ n = MAX_MENUS - 1 =>
               /\ result'.status = "ok"
               /\ AppendsOne(till, till')
               /\ Menus(till', result'.iso) = MAX_MENUS
          /\ n = MAX_MENUS =>
               /\ result'.status = "CapacityExceeded"
               /\ till' = till]_vars

\* C9, its case: the 45th meal of a date has just been checked out
C9_Witness ==
  /\ result.op = "checkout"
  /\ result.status = "ok"
  /\ Menus(till, result.iso) = MAX_MENUS

\* C10: a register request for a date without a schedule row that is open fails
\* with DayClosedOrNotOpen and leaves the reservation ledger as it was, whatever
\* the number of reservations of that date.
C10_NotOpenRejected ==
  [][(ops' = ops + 1 /\ result'.op = "reserve"
        /\ \A i \in DOMAIN params : params[i].date_iso = result'.iso => ~params[i].open)
       => (result'.status = "DayClosedOrNotOpen" /\ resas' = resas)]_vars

\* C10, its case: a register request has just been refused for a date that has a
\* schedule row, not open, and as many reservations as the quota
C10_Witness ==
  /\ result.op = "reserve"
  /\ result.status = "DayClosedOrNotOpen"
  /\ \E i \in DOMAIN params : params[i].date_iso = result.iso
  /\ Len(resas_of(resas, result.iso)) = MAX_RESAS

\* seq1 is a prefix of seq2
IsPrefix(seq1, seq2) == Len(seq1) <= Len(seq2) /\ SubSeq(seq2, 1, Len(seq1)) = seq1

\* C11: the till is append-only: every request (register, unregister, checkout,
\* add-on, close, read) leaves the rows the till already holds, of every date,
\* in place and unchanged, and can only add rows after them.
C11_TillAppendOnly ==
  [][/\ IsPrefix(till, till')
     /\ \A d \in TillDatesIn(till) : IsPrefix(till_of(till, d), till_of(till', d))]_vars

\* C11, its case: the till holds rows, a close among them, and a request of the
\* registration page or a read has been served after them
C11_Witness ==
  /\ Len(till) >= 2
  /\ is_closed(till, Iso17)
  /\ result.op \in {"reserve", "unreserve", "caisse"}

\* the meal rows of a till: the rows that are neither add-ons nor Closed rows
IsMealRow(row) == row.type \notin {T_Closed, T_Sandwich, T_Boisson, T_Chocolat}

\* paid(n): the number of meal rows of the date whose payer has the key n
PaidOf(t, iso, n) ==
  Cardinality({i \in DOMAIN t : t[i].date_iso = iso /\ IsMealRow(t[i])
                                  /\ norm_name(t[i].name) = n})

\* the queue as the specification defines it: the reservations of the date in
\* registration order, without the first min(reg(n), paid(n)) of each key n
ExpectedQueue(rs, t, iso) ==
  LET regs == resas_of(rs, iso)
      rank(i) == Cardinality({j \in 1 .. i : norm_name(regs[j].name) = norm_name(regs[i].name)})
      kept == {i \in DOMAIN regs : rank(i) > PaidOf(t, iso, norm_name(regs[i].name))}
      pick[i \in 0 .. Len(regs)] ==
        IF i = 0 THEN <<>>
        ELSE IF i \in kept THEN Append(pick[i - 1], regs[i].name) ELSE pick[i - 1]
  IN pick[Len(regs)]

\* C12: for a date that is not closed, the remaining queue api_caisse returns is
\* the reservation list of the date in registration order without, for each
\* normalized name n, its first min(reg(n), paid(n)) reservations.
C12_RemainingQueue ==
  ~is_closed(till, Iso17) =>
     api_caisse(backend, resas, till, Iso17).names = ExpectedQueue(resas, till, Iso17)

\* the payer names of a walk-in: blank, or the word the till shows for it
IsWalkIn(name) == strip(name) = <<>> \/ strip(name) = Anonyme

\* C13: a checkout of a walk-in (payer name blank or "Anonyme") leaves the
\* remaining queue of its date as it was.
C13_WalkInKeepsQueue ==
  [][(ops' = ops + 1 /\ result'.op = "checkout" /\ result'.status = "ok"
        /\ IsWalkIn(loc'[1].req.name))
       => api_caisse(backend, resas', till', result'.iso).names
            = api_caisse(backend, resas, till, result'.iso).names]_vars

\* the reservations of the date whose normalized name equals that of the request
NormHits(rs, iso, name) ==
  {i \in DOMAIN rs : rs[i].date_iso = iso /\ norm_name(rs[i].name) = norm_name(name)}

\* C14: unregistration matches by normalized name: when the date holds a
\* reservation whose normalized name equals that of the request, the request
\* succeeds and removes one such reservation.
C14_UnreserveByNormalizedName ==
  [][(ops' = ops + 1 /\ result'.op = "unreserve"
        /\ NormHits(resas, result'.iso, loc'[1].req.name) # {})
       => /\ result'.status = "ok"
          /\ \E i \in NormHits(resas, result'.iso, loc'[1].req.name) :
                resas' = remove_at(resas, i)]_vars

\* C15: an unregister request removes exactly the earliest reservation of its
\* date that matches its name (by normalized name) and leaves the others and
\* their order as they were; without a match it fails with NotFound and leaves
\* the ledger as it was.
C15_UnreserveRemovesEarliest ==
  [][(ops' = ops + 1 /\ result'.op = "unreserve")
       => LET hits == NormHits(resas, result'.iso, loc'[1].req.name) IN
          IF hits = {}
          THEN result'.status = "NotFound" /\ resas' = resas
          ELSE /\ result'.status = "ok"
               /\ resas' = remove_at(resas, CHOOSE i \in hits : \A j \in hits : i <= j)]_vars

\* C16: for every date of every reachable till, the Totals have
\* menus = eleves + profs.
C16_MenusAreElevesPlusProfs ==
  \A d \in TillDatesIn(till) \cup {Iso17} :
     LET t == build_totals(till, d)[1] IN t.menus = t.eleves + t.profs

\* C16, its case: a closed day that served a pupil and a teacher
C16_Witness ==
  /\ is_closed(till, Iso17)
  /\ build_totals(till, Iso17)[1].eleves >= 1
  /\ build_totals(till, Iso17)[1].profs >= 1

\* C17: the meal row a checkout appends carries base 8.00 for a pupil and
\* 12.00 for staff, beverage 2.00 or 0 and chocolate 1.50 or 0 as the request's
\* flags say, and a total of beverage + chocolate when the method is CARD, of
\* base + beverage + chocolate otherwise.
C17_MealRowCash ==
  [][(ops' = ops + 1 /\ result'.op = "checkout" /\ result'.status = "ok")
       => LET req == loc'[1].req
              row == till'[Len(till')]
          IN /\ AppendsOne(till, till')
             /\ row.base = (IF upper(req.type) = ELEVE THEN 800 ELSE 1200)
             /\ row.beverage = (IF req.beverage THEN 200 ELSE 0)
             /\ row.chocolate = (IF req.chocolate THEN 150 ELSE 0)
             /\ row.total = (IF upper(req.method) = CARD
                             THEN row.beverage + row.chocolate
                             ELSE row.base + row.beverage + row.chocolate)]_vars

\* C17, its case: a pupil has just paid a beverage and a chocolate with a card
C17_Witness ==
  /\ result.op = "checkout"
  /\ result.status = "ok"
  /\ Len(till) >= 1
  /\ till[Len(till)].type = "Eleve (CARD)"
  /\ till[Len(till)].total = 350

\* C18: in every reachable till, a Sandwich row has the total 6.00, a Boisson
\* row 2.00, a Chocolat row 1.50, and a Closed row has no name and all its
\* amounts zero.
C18_AddOnAndClosedRows ==
  \A i \in DOMAIN till :
     /\ till[i].type = T_Sandwich => till[i].total = 600
     /\ till[i].type = T_Boisson => till[i].total = 200
     /\ till[i].type = T_Chocolat => till[i].total = 150
     /\ till[i].type = T_Closed =>
          /\ till[i].name = <<>>
          /\ till[i].base = 0 /\ till[i].beverage = 0
          /\ till[i].chocolate = 0 /\ till[i].total = 0

\* C18, its case: a till with chocolates and the Closed row of the day
C18_Witness ==
  /\ \E i \in DOMAIN till : till[i].type = T_Chocolat
  /\ \E i \in DOMAIN till : till[i].type = T_Closed

\* the cash the claim counts for one row of the till
CashOfRow(row) ==
  IF row.type = T_Closed THEN 0
  ELSE IF row.type = T_Sandwich THEN 600
  ELSE IF row.type = T_Boisson THEN 200
  ELSE IF row.type = T_Chocolat THEN 150
  ELSE IF row.type \in {"Eleve (CARD)", "Prof (CARD)"} THEN row.beverage + row.chocolate
  ELSE row.base + row.beverage + row.chocolate

\* the sum of CashOfRow over the rows of a date
CashOfDate(t, iso) ==
  LET rows == till_of(t, iso)
      sum[i \in 0 .. Len(rows)] == IF i = 0 THEN 0 ELSE sum[i - 1] + CashOfRow(rows[i])
  IN sum[Len(rows)]

\* C19: the amount of the Totals of a date is the sum, over its rows that are
\* not Closed rows, of the fixed price of an add-on row, of base + beverage +
\* chocolate of a CASH meal row and of beverage + chocolate of a CARD meal row.
C19_CashAmount ==
  \A d \in TillDatesIn(till) \cup {Iso17} :
     build_totals(till, d)[1].amount = CashOfDate(till, d)

\* C19, its case: a day with a card meal that had an extra, and a cash meal
C19_Witness ==
  /\ \E i \in DOMAIN till :
        till[i].type \in {"Eleve (CARD)", "Prof (CARD)"} /\ till[i].total > 0
  /\ \E i \in DOMAIN till : till[i].type \in {"Eleve (CASH)", "Prof (CASH)"}

\* the number of rows of a date that satisfy P
CountRows(t, iso, P(_)) == Cardinality({i \in DOMAIN t : t[i].date_iso = iso /\ P(t[i])})

\* C20: of the Totals of a date, beverages is the number of Boisson rows plus
\* the number of meal rows with a beverage, chocolates likewise, sandwiches is
\* the number of Sandwich rows, and a Closed row counts in none of the counters.
C20_Counters ==
  \A d \in TillDatesIn(till) \cup {Iso17} :
     LET t == build_totals(till, d)[1] IN
     /\ t.beverages = CountRows(till, d, LAMBDA r : r.type = T_Boisson)
                       + CountRows(till, d, LAMBDA r : IsMealRow(r) /\ r.beverage # 0)
     /\ t.chocolates = CountRows(till, d, LAMBDA r : r.type = T_Chocolat)
                        + CountRows(till, d, LAMBDA r : IsMealRow(r) /\ r.chocolate # 0)
     /\ t.sandwiches = CountRows(till, d, LAMBDA r : r.type = T_Sandwich)
     /\ t.menus = CountRows(till, d, LAMBDA r : IsMealRow(r))

\* C20, its case: a closed day with a beverage sold alone and one sold with a meal
C20_Witness ==
  /\ is_closed(till, Iso17)
  /\ \E i \in DOMAIN till : till[i].type = T_Boisson
  /\ \E i \in DOMAIN till : IsMealRow(till[i]) /\ till[i].beverage # 0

\* C21: a close request always succeeds and appends the Closed row of its date,
\* also when the sending of the summary fails; the date is closed afterwards.
C21_CloseAlwaysSucceeds ==
  [][(ops' = ops + 1 /\ result'.op = "close")
       => /\ result'.status = "ok"
          /\ AppendsOne(till, till')
          /\ till'[Len(till')] = ClosedRow(result'.iso)
          /\ is_closed(till', result'.iso)]_vars

\* C21, its case: the summary of a close could not be sent, and the day is closed
C21_Witness ==
  /\ result.op = "close"
  /\ result.status = "ok"
  /\ outbox # <<>>
  /\ ~outbox[Len(outbox)].delivered
  /\ is_closed(till, result.iso)

\* C22: a close request for a date that is closed already succeeds and leaves
\* the date closed, its Totals and the reservation ledger as they were.
C22_CloseIdempotent ==
  [][(ops' = ops + 1 /\ result'.op = "close" /\ is_closed(till, result'.iso))
       => /\ result'.status = "ok"
          /\ is_closed(till', result'.iso)
          /\ build_totals(till', result'.iso)[1] = build_totals(till, result'.iso)[1]
          /\ resas' = resas]_vars

\* C22, its case: a day with a reservation has been closed twice
C22_Witness ==
  /\ result.op = "close"
  /\ Cardinality({i \in DOMAIN till : till[i] = ClosedRow(Iso17)}) = 2
  /\ resas_of(resas, Iso17) # <<>>

\* the types of the till rows of a date, in order
TypesOf(t, iso) == [i \in DOMAIN till_of(t, iso) |-> till_of(t, iso)[i].type]

\* the request is the checkout of a pupil who pays cash and takes a beverage
IsPupilCashBeverage(req) ==
  /\ upper(req.type) = ELEVE /\ upper(req.method) = CASH
  /\ req.beverage /\ ~req.chocolate

\* the steps of the scenario of C23 on today's date, the refused checkout at its
\* end failing with the given kind of error
ScenarioStep(refusal) ==
  LET d == Iso17
      types == TypesOf(till, d)
  IN (ops' = ops + 1 /\ is_open_day(params, d) /\ resas_of(resas, d) = <<>>) =>
     \* from the empty day: the checkout of a pupil, cash, with a beverage
     /\ (types = <<>> /\ result'.op = "checkout" /\ IsPupilCashBeverage(loc'[1].req))
          => /\ result'.status = "ok"
             /\ result'.body.totals =
                  [menus |-> 1, eleves |-> 1, profs |-> 0, sandwiches |-> 0,
                   beverages |-> 1, chocolates |-> 0, amount |-> 1000]
     \* then two sandwiches
     /\ (types = <<"Eleve (CASH)">> /\ till_of(till, d)[1].total = 1000
            /\ result'.op = "add_sandwich" /\ loc'[1].req.qty = 2)
          => /\ result'.status = "ok"
             /\ result'.body.totals =
                  [menus |-> 1, eleves |-> 1, profs |-> 0, sandwiches |-> 2,
                   beverages |-> 1, chocolates |-> 0, amount |-> 2200]
     \* then the close
     /\ (types = <<"Eleve (CASH)", T_Sandwich, T_Sandwich>> /\ result'.op = "close")
          => /\ result'.status = "ok"
             /\ api_caisse(backend, resas', till', d).closed
     \* then a checkout, which is refused
     /\ (types = <<"Eleve (CASH)", T_Sandwich, T_Sandwich, T_Closed>>
            /\ result'.op = "checkout")
          => /\ result'.status = refusal
             /\ till' = till

\* C23 as stated: on an open day without reservations and till rows, the checkout
\* of a pupil paying cash with a beverage gives the Totals menus 1, eleves 1,
\* profs 0, sandwiches 0, beverages 1, chocolates 0, amount 10.00; two sandwiches
\* then give sandwiches 2 and amount 22.00; the close then closes the day, and a
\* checkout after it fails with DayClosedOrNotOpen.
C23_Scenario == [][ScenarioStep("DayClosedOrNotOpen")]_vars

\* C23 as amended: the same scenario, the checkout after the close failing with
\* Closed.
C23_ScenarioClosed == [][ScenarioStep("Closed")]_vars

\* C23, its case: the scenario has run to its end
C23_Witness ==
  /\ TypesOf(till, Iso17) = <<"Eleve (CASH)", T_Sandwich, T_Sandwich, T_Closed>>
  /\ till[1].total = 1000
  /\ result.op = "checkout"
  /\ result.status = "Closed"

AddOnOps == {"add_sandwich", "add_beverage", "add_chocolate"}

\* the type and the price of the rows an add-on request sells
AddOnType(op) ==
  IF op = "add_sandwich" THEN T_Sandwich ELSE IF op = "add_beverage" THEN T_Boisson ELSE T_Chocolat
AddOnPrice(op) ==
  IF op = "add_sandwich" THEN 600 ELSE IF op = "add_beverage" THEN 200 ELSE 150

\* an add-on request on a date that is not closed succeeds and appends n(q) rows
\* of its kind and date, each at the fixed price, q being its quantity
AddOnAppends(n(_)) ==
  (ops' = ops + 1 /\ result'.op \in AddOnOps /\ ~is_closed(till, result'.iso))
    => LET q == loc'[1].req.qty IN
       /\ result'.status = "ok"
       /\ Len(till') = Len(till) + n(q)
       /\ IsPrefix(till, till')
       /\ \A i \in (Len(till) + 1) .. Len(till') :
             /\ till'[i].date_iso = result'.iso
             /\ till'[i].type = AddOnType(result'.op)
             /\ till'[i].total = AddOnPrice(result'.op)

\* C24 as stated: an add-on request with the quantity q on a date that is not
\* closed appends exactly q rows of its kind, each at its fixed price, for every
\* integer q, zero and the negative ones included.
C24_AddOnQuantity == [][AddOnAppends(LAMBDA q : q)]_vars

\* C24 as amended: it appends exactly max(1, q) rows of its kind, each at its
\* fixed price: q rows when q >= 1, and one row when q <= 0.
C24_AddOnQuantityAtLeastOne == [][AddOnAppends(LAMBDA q : IF q >= 1 THEN q ELSE 1)]_vars

\* C24, its case: a request for a negative number of beverages has just added
\* one beverage
C24_Witness ==
  /\ result.op = "add_beverage"
  /\ result.status = "ok"
  /\ loc[1].req.qty < 0
  /\ till[Len(till)].type = T_Boisson
  /\ result.body.totals.beverages = 1

\* the Totals of a date counted row by row from the till
FoldTotals(t, iso) ==
  [menus |-> CountRows(t, iso, IsMealRow),
   eleves |-> CountRows(t, iso, LAMBDA r : r.type \in {"Eleve (CARD)", "Eleve (CASH)"}),
   profs |-> CountRows(t, iso, LAMBDA r : r.type \in {"Prof (CARD)", "Prof (CASH)"}),
   sandwiches |-> CountRows(t, iso, LAMBDA r : r.type = T_Sandwich),
   beverages |-> CountRows(t, iso, LAMBDA r : r.type = T_Boisson)
                 + CountRows(t, iso, LAMBDA r : IsMealRow(r) /\ r.beverage # 0),
   chocolates |-> CountRows(t, iso, LAMBDA r : r.type = T_Chocolat)
                  + CountRows(t, iso, LAMBDA r : IsMealRow(r) /\ r.chocolate # 0),
   amount |-> CashOfDate(t, iso)]

\* C25: a read of the till (GET /api/caisse) changes neither ledger; a read that
\* follows a read of the same date, with no request in between, returns the same
\* Totals, queue and closed flag; and the Totals every response reports are the
\* Totals counted from the rows the till holds at that moment.
C25_ReadsArePure ==
  [][(ops' = ops + 1) =>
       /\ result'.op = "caisse" => (resas' = resas /\ till' = till)
       /\ (result'.op = "caisse" /\ result.op = "caisse" /\ result.iso = result'.iso)
            => result'.body = result.body
       /\ (result'.op \in {"caisse", "checkout"} \cup AddOnOps /\ result'.status = "ok")
            => /\ result'.body.totals = FoldTotals(till', result'.iso)
               /\ result'.body.closed = is_closed(till', result'.iso)]_vars

\* C25, its case: a read of a closed day that had sales
C25_Witness ==
  /\ result.op = "caisse"
  /\ result.body.closed
  /\ result.body.totals.amount > 0

\* C26: the two backends are interchangeable: on the ledgers that a sequence of
\* requests has built (the handlers that write them store the same rows in
\* both), the read of app.py and the read of app_sheets.py return the same
\* Totals, remaining queue and closed flag.
C26_BackendsAgree ==
  \A date \in DeskReadDates :
     api_caisse("sqlite", resas, till, date) = api_caisse("sheets", resas, till, date)

\* the rows of the schedule that are open, carry the weekday name w and a date
\* on or after today
OpenFrom(ps, w, today) ==
  {k \in DOMAIN ps : ps[k].jour = w /\ ps[k].open /\ fromisoformat(ps[k].date_iso) >= today}

\* the date of a card (dd.mm.yyyy) as an ordinal
CardDay(card) ==
  ymd2ord(int_of(SubSeq(card.date, 7, 10)), int_of(SubSeq(card.date, 4, 5)),
          int_of(SubSeq(card.date, 1, 2)))

\* the index, Monday being 0, of the i-th tracked weekday
TrackedIndex == <<0, 1, 3, 4>>

\* C27: when the schedule has a row with a tracked weekday name, open and dated
\* today or later, the card that api_initial returns for that weekday is open
\* and carries the earliest such date and the menu of the first row of that
\* date.
C27_EarliestOpenDay ==
  (result.op = "initial" /\ result.status = "ok") =>
    \A i \in DOMAIN wanted :
       LET today == fromisoformat(result.iso)
           rows == OpenFrom(params, wanted[i], today)
       IN rows # {} =>
            LET card == result.body.days[i]
                first == CHOOSE k \in rows :
                           /\ \A j \in rows : fromisoformat(params[k].date_iso)
                                                   <= fromisoformat(params[j].date_iso)
                           /\ \A j \in rows : j < k => fromisoformat(params[j].date_iso)
                                                            > fromisoformat(params[k].date_iso)
            IN /\ card.open
               /\ card.jour = wanted[i]
               /\ CardDay(card) = fromisoformat(params[first].date_iso)
               /\ card.menu = params[first].menu

\* C27, its case: the page shows the second row of the schedule, the first row
\* being an open day of the same name that is over
C27_Witness ==
  /\ result.op = "initial"
  /\ result.status = "ok"
  /\ Len(params) = 2
  /\ params[1].jour = Lundi /\ params[1].open
  /\ fromisoformat(params[1].date_iso) < fromisoformat(result.iso)
  /\ result.body.days[1].open
  /\ result.body.days[1].menu = params[2].menu

\* C28: when the schedule has no open row of a tracked weekday name dated today
\* or later, the card that api_initial returns for that weekday is closed, has
\* an empty menu, and its date
\* is today + k with k = (target - weekday of today) mod 7, 7 taken for 0: k is
\* in 1 .. 7, the date falls on that weekday and is after today.
C28_NextWeekday ==
  (result.op = "initial" /\ result.status = "ok") =>
    \A i \in DOMAIN wanted :
       LET today == fromisoformat(result.iso)
       IN OpenFrom(params, wanted[i], today) = {} =>
            LET card == result.body.days[i]
                k == CardDay(card) - today
                m == (TrackedIndex[i] - weekday(today)) % 7
            IN /\ ~card.open
               /\ card.menu = <<>>
               /\ card.jour = wanted[i]
               /\ k = (IF m = 0 THEN 7 ELSE m)
               /\ k \in 1 .. 7
               /\ weekday(CardDay(card)) = TrackedIndex[i]
               /\ CardDay(card) > today

\* C28, its case: the page is loaded on a Thursday without an open Thursday to
\* come, and the card of Jeudi shows the Thursday of the week after
C28_Witness ==
  /\ result.op = "initial"
  /\ result.status = "ok"
  /\ weekday(fromisoformat(result.iso)) = 3
  /\ ~result.body.days[3].open
  /\ CardDay(result.body.days[3]) = fromisoformat(result.iso) + 7

\* C29: api_initial answers with exactly four cards, those of Lundi, Mardi,
\* Jeudi and Vendredi in this order, each of them open or closed.
C29_FourCards ==
  result.op = "initial" =>
    /\ result.status = "ok"
    /\ Len(result.body.days) = 4
    /\ \A i \in 1 .. 4 :
          /\ result.body.days[i].jour = <<Lundi, Mardi, Jeudi, Vendredi>>[i]
          /\ result.body.days[i].open \in BOOLEAN

\* C30: to_iso_any never raises: for every text, the empty one and the ones
\* of ten characters with two dots and fields that are not digits included, it
\* returns a date text of the form yyyy-mm-dd.
C30_CodecNeverRaises ==
  result.op = "to_iso_any" => (result.status = "ok" /\ Len(result.iso) = 10)

\* the yyyy-mm-dd text made of the fields of a dd.mm.yyyy text
FieldsAsIso(t) == SubSeq(t, 7, 10) \o <<"-">> \o SubSeq(t, 4, 5) \o <<"-">> \o SubSeq(t, 1, 2)

\* C31: for a calendar date, to_iso_any turns its dd.mm.yyyy text into its
\* yyyy-mm-dd text, rendering that text for the page gives the dd.mm.yyyy text
\* again, and to_iso_any leaves a yyyy-mm-dd text as it is.
C31_DateRoundTrip ==
  LET sent == loc[1].req.dateStr IN
  /\ result.op \in {"to_iso_any", "display"} =>
        /\ result.status = "ok"
        /\ sent[3] = "." => result.iso = FieldsAsIso(sent)
        /\ sent[5] = "-" => result.iso = sent
        /\ fromisoformat(result.iso) \in RoundDays
  /\ result.op = "display" =>
        /\ sent[3] = "." => result.body.date = sent
        /\ sent[5] = "-" => FieldsAsIso(result.body.date) = sent

\* C31, its case: 15.03.2025 became 2025-03-15 and was rendered as 15.03.2025
C31_Witness ==
  /\ result.op = "display"
  /\ loc[1].req.dateStr = <<"1","5",".","0","3",".","2","0","2","5">>
  /\ result.iso = <<"2","0","2","5","-","0","3","-","1","5">>
  /\ result.body.date = <<"1","5",".","0","3",".","2","0","2","5">>

\* the Totals of every summary sent for a date whose closes have all completed
\* are the Totals of the date's till
MailedTotalsAreFinal ==
  \A i \in DOMAIN outbox :
     (is_closed(till, outbox[i].iso) /\ \A p \in Procs : pc[p] # "close_append")
       => outbox[i].totals = build_totals(till, outbox[i].iso)[1]

\* a step that appends a ClosingMarker is the last step of a close, after the
\* call of the notifier
MarkerAfterNotifier ==
  (Len(till') = Len(till) + 1 /\ till'[Len(till')].type = T_Closed)
    => \E p \in Procs : pc[p] = "close_append" /\ pc'[p] = "done"

\* C32: the Totals that close passes to the notifier equal the Totals computed
\* from the date's till after the close has completed, and the ClosingMarker is
\* appended only after the call of the notifier has returned or failed.
C32_NotifiedTotalsAreFinal == []MailedTotalsAreFinal /\ [][MarkerAfterNotifier]_vars

\* C36: in every interleaving of a close with checkouts and add-ons of the same
\* date, no meal or add-on row of the date stands in the till after a
\* ClosingMarker of the date.
C36_NoRowAfterMarker ==
  \A i \in DOMAIN till : \A j \in DOMAIN till :
     (i < j /\ till[i].type = T_Closed /\ till[j].date_iso = till[i].date_iso)
       => till[j].type = T_Closed

\* C33: a date has till rows (meal, add-on or ClosingMarker) only if the
\* schedule has an entry of that date open for registration: no date goes from
\* Unscheduled to Serving or to Closed.
C33_TillOnlyOnOpenDates ==
  \A i \in DOMAIN till :
     \E k \in DOMAIN params : params[k].date_iso = till[i].date_iso /\ params[k].open

\* what a date shows: its reservation count, its remaining queue, its Totals
\* and its closed flag
DateView(rs, t, d) ==
  [count  |-> Len(SelectSeq(rs, LAMBDA r : r.date_iso = d)),
   names  |-> api_caisse(backend, rs, t, d).names,
   totals |-> api_caisse(backend, rs, t, d).totals,
   closed |-> \E i \in DOMAIN t : t[i].date_iso = d /\ t[i].type = T_Closed]

\* C38: a register, unregister, checkout, add-on or close request for a date
\* leaves the reservation count, the remaining queue, the Totals and the closed
\* flag of every other date unchanged.
C38_DatesAreIsolated ==
  [][ops' = ops + 1 =>
       \A d \in FrameDates :
          d # result'.iso => DateView(resas', till', d) = DateView(resas, till, d)]_vars

\* C38, its case: tomorrow has been closed with a sale and a reservation, and
\* today still has its reservation, a sale of its own and is open
C38_Witness ==
  /\ result.op = "close" /\ result.iso = Iso18
  /\ DateView(resas, till, Iso18).closed
  /\ DateView(resas, till, Iso18).totals.menus = 1
  /\ ~DateView(resas, till, Iso17).closed
  /\ DateView(resas, till, Iso17).totals.sandwiches = 2
  /\ DateView(resas, till, Iso17).count = 1

\* C39: register and unregister leave the till unchanged; checkout, add-on and
\* close leave the reservations unchanged: the reservation of a person who has
\* been served stays in the ledger and only leaves the queue.
C39_LedgersAreSeparate ==
  [][ops' = ops + 1 =>
       /\ result'.op \in {"reserve", "unreserve"} => till' = till
       /\ result'.op \in {"checkout", "add_sandwich", "close"} => resas' = resas
       /\ (result'.op = "checkout" /\ result'.status = "ok"
             /\ Len(result'.body.names) < Len(api_caisse(backend, resas, till, result'.iso).names))
            => Len(SelectSeq(resas', LAMBDA r : r.date_iso = result'.iso))
                 > Len(result'.body.names)]_vars

\* C39, its case: Ana registered for today and was served: the reservation is
\* in the ledger and the queue no longer has her name
C39_Witness ==
  /\ result.op = "checkout" /\ result.status = "ok" /\ result.iso = Iso17
  /\ \E i \in DOMAIN resas : resas[i].date_iso = Iso17 /\ resas[i].name = Ana
  /\ \A i \in DOMAIN result.body.names : result.body.names[i] # Ana
  /\ Len(till) = 1

\* the day and month of a yyyy-mm-dd text as dd.mm
DayMonth(iso) == SubSeq(iso, 9, 10) \o <<".">> \o SubSeq(iso, 6, 7)

\* the weekday of a yyyy-mm-dd text, Monday being 0
WeekdayOfIso(iso) == weekday(fromisoformat(iso))

\* C34: pretty_fr_header of app.py labels a date with the entry (w + 1) mod 7
\* of the Sunday-first table DAYS, w being the Monday-first weekday of the date.
C34_SundayFirstRemap ==
  (result.op = "header" /\ backend = "sqlite") =>
     result.body.date =
       <<Dimanche, Lundi, Mardi, Mercredi, Jeudi, Vendredi, Samedi>>
           [((WeekdayOfIso(result.iso) + 1) % 7) + 1]
         \o <<" ">> \o DayMonth(result.iso)

\* C34, its case: a Sunday, where the index wraps to 0, and a Monday
C34_Witness ==
  /\ result.op = "header" /\ backend = "sqlite"
  /\ WeekdayOfIso(result.iso) = 6
  /\ result.body.date = Dimanche \o <<" ", "2", "8", ".", "1", "2">>

\* C35 as it is stated: for some date, the header of the backend in use and
\* the header of the other backend name different weekdays.
C35_LabelsDisagree ==
  \E day \in RoundDays : \E other \in Backends \ {backend} :
     pretty_fr_header(backend, isoformat(day)) # pretty_fr_header(other, isoformat(day))

\* C35, amended: for every date, whatever its weekday, the header one backend
\* makes is the header the other backend makes.
C35_LabelsAgree ==
  result.op = "header" =>
     /\ backend = "sqlite" => result.body.date = pretty_fr_header("sheets", result.iso)
     /\ backend = "sheets" => result.body.date = pretty_fr_header("sqlite", result.iso)
     /\ \E w \in 0 .. 6 :
           /\ w = WeekdayOfIso(result.iso)
           /\ result.body.date =
                <<Lundi, Mardi, Mercredi, Jeudi, Vendredi, Samedi, Dimanche>>[w + 1]
                  \o <<" ">> \o DayMonth(result.iso)

\* C35, its case: the Sheets backend has labelled a Sunday
C35_Witness ==
  /\ result.op = "header" /\ backend = "sheets"
  /\ WeekdayOfIso(result.iso) = 6
  /\ result.body.date = Dimanche \o <<" ", "0", "3", ".", "0", "3">>

\* C37: in every interleaving of unregistrations on the sheet, a request that
\* removes a reservation removes one of its own date and name.
C37_RemovesOnlyOwnMatch ==
  [][\A p \in Procs :
       (pc[p] = "unreserve_delete" /\ pc'[p] = "done" /\ resas' # resas) =>
          \E i \in DOMAIN resas :
             /\ resas' = SubSeq(resas, 1, i - 1) \o SubSeq(resas, i + 1, Len(resas))
             /\ resas[i].date_iso = loc[p].iso
             /\ strip(resas[i].name) = strip(loc[p].req.name)]_vars

====
